---- MODULE Spec2Model ----
(***************************************************************************)
(* tel2gsheet: the calories tracker (calories_tracker.py) and the expenses *)
(* tracker (expenses_tracker.py) reading a Telegram chat and appending to  *)
(* a Google spreadsheet.                                                   *)
(*                                                                         *)
(* Text is a sequence of characters; a character is a one-token string.    *)
(* Accented letters are written as named tokens ("a_acute").  A text that  *)
(* is None in Python is the one-element sequence NoneText.                 *)
(***************************************************************************)
EXTENDS Integers, Sequences, FiniteSets, TLC

\* ------------------------------------------------------------------------
\* Bounds of the model
\* ------------------------------------------------------------------------
\* number of messages users post to the chat in one behaviour
MaxPosts == 2

\* length of the quantity texts drawn for one line
MaxQty == 3

\* number of rows the sheet of entries holds before the run
MaxRows == 2

\* number of rows left in the sheets by runs that died before the ledger was
\* written, up to which a write may still fail
MaxOrphanRows == 2

\* ------------------------------------------------------------------------
\* Characters and Python's str methods
\* ------------------------------------------------------------------------
NoneText == <<"<None>">>

NoneDec == [n |-> 0, d |-> 0]

IsNumeric(c) == c \in {"0", "1", "2", "3", "4", "5", "6", "7", "8", "9"}

IsSpace(c) == c \in {" ", "\n", "\t"}

Lower(c) ==
    CASE c = "A" -> "a"
      [] c = "B" -> "b"
      [] c = "C" -> "c"
      [] c = "G" -> "g"
      [] c = "L" -> "l"
      [] c = "N" -> "n"
      [] c = "S" -> "s"
      [] c = "A_acute" -> "a_acute"
      [] OTHER -> c

Upper(c) ==
    CASE c = "a" -> "A"
      [] c = "b" -> "B"
      [] c = "c" -> "C"
      [] c = "g" -> "G"
      [] c = "l" -> "L"
      [] c = "n" -> "N"
      [] c = "s" -> "S"
      [] c = "a_acute" -> "A_acute"
      [] OTHER -> c

Unidecode(c) ==
    CASE c = "a_acute" -> "a"
      [] c = "A_acute" -> "A"
      [] OTHER -> c

LowerText(t) == [i \in 1..Len(t) |-> Lower(t[i])]

UpperText(t) == [i \in 1..Len(t) |-> Upper(t[i])]

UnidecodeText(t) == [i \in 1..Len(t) |-> Unidecode(t[i])]

RECURSIVE LStrip(_)
LStrip(t) ==
    IF t = <<>> THEN t
    ELSE IF IsSpace(Head(t)) THEN LStrip(Tail(t)) ELSE t

RECURSIVE RStrip(_)
RStrip(t) ==
    IF t = <<>> THEN t
    ELSE IF IsSpace(t[Len(t)]) THEN RStrip(SubSeq(t, 1, Len(t) - 1)) ELSE t

Strip(t) == LStrip(RStrip(t))

\* str.lstrip("@"): every leading "@" is removed
RECURSIVE LStripAt(_)
LStripAt(t) ==
    IF t = <<>> THEN t
    ELSE IF Head(t) = "@" THEN LStripAt(Tail(t)) ELSE t

StartsWith(t, p) == Len(t) >= Len(p) /\ SubSeq(t, 1, Len(p)) = p

Contains(t, c) == \E i \in 1..Len(t) : t[i] = c

\* str.split(c) for a one-character separator
RECURSIVE Split(_, _)
Split(t, c) ==
    IF ~Contains(t, c) THEN <<t>>
    ELSE LET i == CHOOSE k \in 1..Len(t) :
                     t[k] = c /\ \A j \in 1..(k - 1) : t[j] # c
         IN  <<SubSeq(t, 1, i - 1)>> \o Split(SubSeq(t, i + 1, Len(t)), c)

\* str.splitlines(): split at the line ends, no empty last line
SplitLines(t) ==
    LET parts == Split(t, "\n")
    IN  IF parts[Len(parts)] = <<>>
        THEN SubSeq(parts, 1, Len(parts) - 1)
        ELSE parts

\* str.replace("cal", "")
RECURSIVE ReplaceCal(_)
ReplaceCal(t) ==
    IF t = <<>> THEN t
    ELSE IF StartsWith(t, <<"c", "a", "l">>)
         THEN ReplaceCal(SubSeq(t, 4, Len(t)))
         ELSE <<Head(t)>> \o ReplaceCal(Tail(t))

\* str.replace(",", ".")
ReplaceComma(t) == [i \in 1..Len(t) |-> IF t[i] = "," THEN "." ELSE t[i]]

normalize_text(text) == UnidecodeText(Strip(LowerText(text)))

\* ------------------------------------------------------------------------
\* decimal.Decimal
\* ------------------------------------------------------------------------
DigitVal(c) ==
    CASE c = "0" -> 0 [] c = "1" -> 1 [] c = "2" -> 2 [] c = "3" -> 3
      [] c = "4" -> 4 [] c = "5" -> 5 [] c = "6" -> 6 [] c = "7" -> 7
      [] c = "8" -> 8 [] c = "9" -> 9

RECURSIVE DigitsVal(_)
DigitsVal(t) ==
    IF t = <<>> THEN 0
    ELSE 10 * DigitsVal(SubSeq(t, 1, Len(t) - 1)) + DigitVal(t[Len(t)])

RECURSIVE Pow10(_)
Pow10(k) == IF k = 0 THEN 1 ELSE 10 * Pow10(k - 1)

RECURSIVE Gcd(_, _)
Gcd(a, b) == IF b = 0 THEN a ELSE Gcd(b, a % b)

\* Decimal(text): [exc, val]; val = n / d with d the power of ten of the
\* fraction digits written.  The text is accepted when, stripped, it is
\* digits with at most one point and at least one digit.
Decimal(text) ==
    LET s    == Strip(text)
        ip   == Split(s, ".")
        digs == IF Len(ip) = 1 THEN ip[1] ELSE ip[1] \o ip[2]
        ok   == /\ Len(ip) <= 2
                /\ digs # <<>>
                /\ \A i \in 1..Len(digs) : IsNumeric(digs[i])
    IN  IF ok
        THEN [exc |-> "none",
              val |-> [n |-> DigitsVal(digs),
                       d |-> IF Len(ip) = 1 THEN 1 ELSE Pow10(Len(ip[2]))]]
        ELSE [exc |-> "InvalidOperation", val |-> NoneDec]

\* Decimal.__truediv__: 0/0 signals InvalidOperation, p/0 DivisionByZero;
\* the quotient is kept in lowest terms
DecimalDiv(p, q) ==
    IF q.n = 0
    THEN [exc |-> IF p.n = 0 THEN "InvalidOperation" ELSE "DivisionByZero",
          val |-> NoneDec]
    ELSE LET num == p.n * q.d
             den == p.d * q.n
             g   == Gcd(num, den)
         IN  [exc |-> "none",
              val |-> IF num = 0 THEN [n |-> 0, d |-> 1]
                      ELSE [n |-> num \div g, d |-> den \div g]]

\* ------------------------------------------------------------------------
\* split_unit
\* ------------------------------------------------------------------------
\* the split taken after the first digit of the text, not the last
split_unit_FirstDigit(text) ==
    IF ~\E i \in 1..Len(text) : IsNumeric(text[i])
    THEN [exc |-> "ValueError", val |-> NoneDec, un |-> <<>>]
    ELSE LET i   == CHOOSE k \in 1..Len(text) :
                        /\ IsNumeric(text[k])
                        /\ \A j \in 1..(k - 1) : ~IsNumeric(text[j])
             val == Strip(SubSeq(text, 1, i))
             un  == Strip(SubSeq(text, i + 1, Len(text)))
             v   == Decimal(val)
         IN  [exc |-> v.exc, val |-> v.val, un |-> un]

split_unit(text) ==
    IF ~\E i \in 1..Len(text) : IsNumeric(text[i])
    THEN [exc |-> "ValueError", val |-> NoneDec, un |-> <<>>]
    ELSE LET i   == CHOOSE k \in 1..Len(text) :
                        /\ IsNumeric(text[k])
                        /\ \A j \in (k + 1)..Len(text) : ~IsNumeric(text[j])
             val == Strip(SubSeq(text, 1, i))
             un  == Strip(SubSeq(text, i + 1, Len(text)))
         IN  IF Contains(val, "/")
             THEN LET pq == Split(val, "/")
                  IN  IF Len(pq) # 2
                      THEN [exc |-> "ValueError", val |-> NoneDec, un |-> un]
                      ELSE LET p == Decimal(pq[1])
                               q == Decimal(pq[2])
                           IN  IF p.exc # "none"
                               THEN [exc |-> p.exc, val |-> NoneDec, un |-> un]
                               ELSE IF q.exc # "none"
                               THEN [exc |-> q.exc, val |-> NoneDec, un |-> un]
                               ELSE LET r == DecimalDiv(p.val, q.val)
                                    IN  [exc |-> r.exc, val |-> r.val,
                                         un |-> un]
             ELSE LET v == Decimal(val)
                  IN  [exc |-> v.exc, val |-> v.val, un |-> un]

\* ------------------------------------------------------------------------
\* datetime.strptime(text, "%d/%m/%Y"); a date is <<year, month, day>>
\* ------------------------------------------------------------------------
NoneDate == <<0, 0, 0>>

AllDigits(t) == t # <<>> /\ \A i \in 1..Len(t) : IsNumeric(t[i])

DaysInMonth(y, m) ==
    IF m \in {4, 6, 9, 11} THEN 30
    ELSE IF m # 2 THEN 31
    ELSE IF (y % 4 = 0 /\ y % 100 # 0) \/ y % 400 = 0 THEN 29 ELSE 28

strptime(text) ==
    LET f  == Split(text, "/")
        ok == /\ Len(f) = 3
              /\ AllDigits(f[1]) /\ Len(f[1]) <= 2
              /\ AllDigits(f[2]) /\ Len(f[2]) <= 2
              /\ AllDigits(f[3]) /\ Len(f[3]) = 4
              /\ DigitsVal(f[3]) >= 1
              /\ DigitsVal(f[2]) \in 1..12
              /\ DigitsVal(f[1]) \in
                     1..DaysInMonth(DigitsVal(f[3]), DigitsVal(f[2]))
    IN  IF ok
        THEN [exc |-> "none",
              val |-> <<DigitsVal(f[3]), DigitsVal(f[2]), DigitsVal(f[1])>>]
        ELSE [exc |-> "ValueError", val |-> NoneDate]

\* ------------------------------------------------------------------------
\* Records and their parsers (calories tracker)
\* ------------------------------------------------------------------------
\* a Telegram message; reply_to = 0 when the message is no reply
Message(id, date, text, reply_to) ==
    [id |-> id, date |-> date, text |-> text, reply_to |-> reply_to]

is_reply(msg) == msg.reply_to # 0

NoRecord ==
    [id |-> 0, date |-> NoneDate, description |-> NoneText,
     quantity |-> NoneDec, unit |-> NoneText, calories |-> NoneDec]

StripAll(items) == [i \in 1..Len(items) |-> Strip(items[i])]

\* (desc, unit) == [d, un]: a Python tuple never equals a list
TupleEqList(tup, lst) == FALSE

\* (desc, unit) in registrations, registrations a list of lists
TupleInRegistrations(tup, registrations) ==
    \E i \in 1..Len(registrations) : TupleEqList(tup, registrations[i])

\* the tail of CalorieRegistration.parse: the duplicate test and the record
RegistrationRecord(msg, desc, cals, su, registrations) ==
    IF su.exc # "none"
    THEN [exc |-> su.exc, rec |-> NoRecord]
    ELSE IF TupleInRegistrations(<<desc, su.un>>, registrations)
    THEN [exc |-> "ValueError", rec |-> NoRecord]
    ELSE [exc |-> "none",
          rec |-> [id |-> msg.id, date |-> msg.date,
                   description |-> desc, quantity |-> su.val,
                   unit |-> su.un, calories |-> cals.val]]

\* cals and quantity of "CALS cal / QUANTITY UNIT", f the segment split at "/"
RegistrationAmounts(msg, desc, f, cals, registrations) ==
    IF cals.exc # "none"
    THEN [exc |-> cals.exc, rec |-> NoRecord]
    ELSE IF Len(f) < 2
    THEN [exc |-> "IndexError", rec |-> NoRecord]
    ELSE RegistrationRecord(msg, desc, cals, split_unit(Strip(f[2])),
                            registrations)

RegistrationItems(msg, items, registrations) ==
    IF Len(items) < 2
    THEN [exc |-> "IndexError", rec |-> NoRecord]
    ELSE RegistrationAmounts(msg, items[1], Split(items[2], "/"),
             Decimal(Strip(ReplaceCal(Split(items[2], "/")[1]))),
             registrations)

CalorieRegistration_parse(msg, registrations) ==
    RegistrationItems(msg, StripAll(Split(LStripAt(msg.text), "-")),
                      registrations)

\* the registrations whose normalized description and unit are the line's
MatchingRegistrations(desc, unit, registrations) ==
    SelectSeq(registrations,
              LAMBDA r : /\ normalize_text(r[1]) = normalize_text(desc)
                         /\ normalize_text(r[2]) = normalize_text(unit))

IsCalUnit(unit) ==
    UpperText(unit) \in {<<"C", "A", "L">>, <<"C", "A", "L", "S">>}

\* the record of a consumption line with the first matching registration
NormalizedRecord(msg, desc, su, dp, normalized) ==
    IF normalized = <<>>
    THEN [exc |-> "MissingRegistrationError", rec |-> NoRecord]
    ELSE [exc |-> "none",
          rec |-> [id |-> msg.id, date |-> dp.val,
                   description |-> normalized[1][1], quantity |-> su.val,
                   unit |-> normalized[1][2], calories |-> NoneDec]]

\* the record built from the text of the line and not from the reference
MealRecord_UserSpelling(msg, desc, su, dp, registrations) ==
    IF su.exc # "none"
    THEN [exc |-> su.exc, rec |-> NoRecord]
    ELSE IF dp.exc # "none"
    THEN [exc |-> dp.exc, rec |-> NoRecord]
    ELSE IF IsCalUnit(su.un)
    THEN [exc |-> "none",
          rec |-> [id |-> msg.id, date |-> dp.val,
                   description |-> desc, quantity |-> NoneDec,
                   unit |-> NoneText, calories |-> su.val]]
    ELSE IF MatchingRegistrations(desc, su.un, registrations) = <<>>
    THEN [exc |-> "MissingRegistrationError", rec |-> NoRecord]
    ELSE [exc |-> "none",
          rec |-> [id |-> msg.id, date |-> dp.val,
                   description |-> desc, quantity |-> su.val,
                   unit |-> su.un, calories |-> NoneDec]]

\* the record of a cal/cals line built with its quantity and unit kept
MealRecord_CalKeepsQuantity(msg, desc, su, dp, registrations) ==
    IF su.exc # "none"
    THEN [exc |-> su.exc, rec |-> NoRecord]
    ELSE IF dp.exc # "none"
    THEN [exc |-> dp.exc, rec |-> NoRecord]
    ELSE IF IsCalUnit(su.un)
    THEN [exc |-> "none",
          rec |-> [id |-> msg.id, date |-> dp.val,
                   description |-> desc, quantity |-> su.val,
                   unit |-> su.un, calories |-> su.val]]
    ELSE NormalizedRecord(msg, desc, su, dp,
             MatchingRegistrations(desc, su.un, registrations))

\* the tail of MealMessage.parse: su the quantity and unit, dp the date
MealRecord(msg, desc, su, dp, registrations) ==
    IF su.exc # "none"
    THEN [exc |-> su.exc, rec |-> NoRecord]
    ELSE IF dp.exc # "none"
    THEN [exc |-> dp.exc, rec |-> NoRecord]
    ELSE IF IsCalUnit(su.un)
    THEN [exc |-> "none",
          rec |-> [id |-> msg.id, date |-> dp.val,
                   description |-> desc, quantity |-> NoneDec,
                   unit |-> NoneText, calories |-> su.val]]
    ELSE NormalizedRecord(msg, desc, su, dp,
             MatchingRegistrations(desc, su.un, registrations))

MealItems(msg, items, registrations) ==
    IF Len(items) < 2
    THEN [exc |-> "IndexError", rec |-> NoRecord]
    ELSE MealRecord(msg, items[1], split_unit(items[2]),
                    IF Len(items) < 5
                    THEN [exc |-> "none", val |-> msg.date]
                    ELSE strptime(items[3]),
                    registrations)

MealMessage_parse(msg, registrations) ==
    MealItems(msg, StripAll(Split(msg.text, "-")), registrations)

\* ------------------------------------------------------------------------
\* Expense records (expenses tracker)
\* ------------------------------------------------------------------------
NoExpense ==
    [id |-> 0, date |-> NoneDate, price |-> NoneDec, counterparty |-> NoneText,
     description |-> NoneText, account |-> NoneText]

\* ExpenseMessage.parse: the set of its possible results.  valid_accounts is
\* a Python set, so matching_accs[0] is any of the matching accounts.
ExpenseMessage_parse(msg, valid_accounts) ==
    LET items == StripAll(Split(msg.text, "-"))
        price == Decimal(ReplaceComma(items[1]))
    IN  IF price.exc # "none"
        THEN {[exc |-> price.exc, rec |-> NoExpense]}
        ELSE IF Len(items) < 4
        THEN {[exc |-> "IndexError", rec |-> NoExpense]}
        ELSE
        LET matching_accs ==
                {a \in valid_accounts :
                     normalize_text(a) = normalize_text(items[4])}
            dp == IF Len(items) < 5
                  THEN [exc |-> "none", val |-> msg.date]
                  ELSE strptime(items[5])
        IN  IF matching_accs = {}
            THEN {[exc |-> "IndexError", rec |-> NoExpense]}
            ELSE IF dp.exc # "none"
            THEN {[exc |-> dp.exc, rec |-> NoExpense]}
            ELSE {[exc |-> "none",
                   rec |-> [id |-> msg.id, date |-> dp.val,
                            price |-> price.val, counterparty |-> items[2],
                            description |-> items[3], account |-> acc]] :
                  acc \in matching_accs}

\* ------------------------------------------------------------------------
\* process_received_messages: the loop state and its steps
\* ------------------------------------------------------------------------
TEXT_HEADER ==
    <<"#", " ", "M", "E", "N", "S", "A", "G", "E", "M", " ", "A", "U", "T",
      "O", "M", "A", "T", "I", "C", "A", " ", "#", "\n", "\n">>

Reverse(s) == [i \in 1..Len(s) |-> s[Len(s) + 1 - i]]

\* the locals and buckets of one pass
NewPass(registrations) ==
    [to_upload |-> <<>>, new_registrations |-> <<>>,
     missing_registration |-> <<>>, failed_to_parse |-> <<>>,
     asked_for_help |-> <<>>, registrations |-> registrations,
     help_wanted |-> <<>>, answered |-> {}, exc |-> "none"]

\* the filter left out: every fetched message is processed again
FilterProcessed_KeepAll(all, processed) == all

\* msgs = [m for m in fetched if m.id not in self.processed_msgs]
FilterProcessed(all, processed) ==
    SelectSeq(all, LAMBDA m : m.id \notin processed)

StartsWithAt(m) == m.text # NoneText /\ StartsWith(m.text, <<"@">>)

\* sorted(msgs, key = 0 if the text starts with "@" else 1), a stable sort
SortRegistrationsFirst(msgs) ==
    SelectSeq(msgs, StartsWithAt) \o
    SelectSeq(msgs, LAMBDA m : ~StartsWithAt(m))

\* msg.text = line: the message object is shared with failed_to_parse
AssignText(failed, id, line) ==
    [i \in 1..Len(failed) |->
         IF failed[i].id = id THEN [failed[i] EXCEPT !.text = line]
         ELSE failed[i]]

MissingRegistrationMessage(id, date, text) ==
    [id |-> id, date |-> date, text |-> text]

\* except (IndexError, InvalidOperation, IndexError)
Caught(exc) == exc \in {"IndexError", "InvalidOperation"}

\* a clause "except ValueError" put first: it takes the missing registrations
ExceptClause_ValueErrorFirst(exc) ==
    IF exc \in {"ValueError", "MissingRegistrationError"} \/ Caught(exc)
    THEN "failed_to_parse"
    ELSE "raise"

\* the except clauses of the calories pass, in their order
ExceptClause(exc) ==
    IF exc = "MissingRegistrationError" THEN "missing_registration"
    ELSE IF Caught(exc) THEN "failed_to_parse"
    ELSE "raise"

\* the bucket the outcome r of parsing the line m goes to
LineOutcome(s0, m, r) ==
    IF r.exc = "none"
    THEN IF StartsWith(m.text, <<"@">>)
         THEN [s0 EXCEPT
                 !.new_registrations = Append(@, r.rec),
                 !.registrations =
                     Append(@, <<r.rec.description, r.rec.unit>>)]
         ELSE [s0 EXCEPT !.to_upload = Append(@, r.rec)]
    ELSE IF ExceptClause(r.exc) = "missing_registration"
    THEN [s0 EXCEPT !.missing_registration =
             Append(@, MissingRegistrationMessage(m.id, m.date, m.text))]
    ELSE IF ExceptClause(r.exc) = "failed_to_parse"
    THEN [s0 EXCEPT !.failed_to_parse = Append(@, m)]
    ELSE [s0 EXCEPT !.exc = r.exc]

LineParse(m, registrations) ==
    IF StartsWith(m.text, <<"@">>)
    THEN CalorieRegistration_parse(m, registrations)
    ELSE MealMessage_parse(m, registrations)

\* one iteration of "for line in original_text.splitlines()"
LineStep(st, msg, line) ==
    LineOutcome([st EXCEPT !.failed_to_parse = AssignText(@, msg.id, line)],
                [msg EXCEPT !.text = line],
                LineParse([msg EXCEPT !.text = line], st.registrations))

\* the skip taken before the reply target is noted
MsgHead_SkipFirst(st, msg) ==
    IF msg.text = NoneText \/ StartsWith(msg.text, <<"#">>)
    THEN st
    ELSE LET s1 == IF is_reply(msg)
                   THEN [st EXCEPT !.answered = @ \cup {msg.reply_to}]
                   ELSE st
         IN  IF Strip(msg.text) = <<"?">>
             THEN [s1 EXCEPT !.help_wanted = Append(@, msg)]
             ELSE s1

\* the head of one iteration of "for msg in msgs", both trackers
MsgHead(st, msg) ==
    LET s1 == IF is_reply(msg)
              THEN [st EXCEPT !.answered = @ \cup {msg.reply_to}]
              ELSE st
    IN  IF msg.text = NoneText \/ StartsWith(msg.text, <<"#">>)
        THEN s1
        ELSE IF Strip(msg.text) = <<"?">>
        THEN [s1 EXCEPT !.help_wanted = Append(@, msg)]
        ELSE s1

\* the lines the iteration goes on to parse
MsgLines(msg) ==
    IF \/ msg.text = NoneText
       \/ StartsWith(msg.text, <<"#">>)
       \/ Strip(msg.text) = <<"?">>
    THEN <<>>
    ELSE SplitLines(msg.text)

\* the expenses tracker parses the message as a whole
ExpenseParses(msg) ==
    ~(\/ msg.text = NoneText
      \/ StartsWith(msg.text, <<"#">>)
      \/ Strip(msg.text) = <<"?">>)

ExpenseStep(st, msg, accounts) ==
    {IF r.exc = "none" THEN [st EXCEPT !.to_upload = Append(@, r.rec)]
     ELSE IF Caught(r.exc) THEN [st EXCEPT !.failed_to_parse = Append(@, msg)]
     ELSE [st EXCEPT !.exc = r.exc] :
     r \in ExpenseMessage_parse(msg, accounts)}

\* the code after the loop
Unanswered(st) == SelectSeq(st.help_wanted, LAMBDA m : m.id \notin st.answered)

CaloriesFinish(st) ==
    [st EXCEPT !.to_upload = Reverse(@),
               !.new_registrations = Reverse(@),
               !.missing_registration = Reverse(@),
               !.failed_to_parse = Reverse(@),
               !.asked_for_help = @ \o Unanswered(st)]

ExpensesFinish(st) ==
    [st EXCEPT !.to_upload = Reverse(@),
               !.failed_to_parse = Reverse(@),
               !.asked_for_help = @ \o Unanswered(st)]

\* the test of the header left out: only an empty batch stops the pass
CaloriesGuard_NoHeaderTest(msgs) ==
    IF msgs = <<>> THEN "return"
    ELSE IF msgs[1].text = NoneText THEN "AttributeError"
    ELSE "go"

\* the early return of the calories tracker; msgs[0].text may be None
CaloriesGuard(msgs) ==
    IF msgs = <<>> THEN "return"
    ELSE IF msgs[1].text = NoneText THEN "AttributeError"
    ELSE IF StartsWith(msgs[1].text, TEXT_HEADER) THEN "return"
    ELSE "go"

\* ------------------------------------------------------------------------
\* The spreadsheet as it is read back, and the monthly figures
\* ------------------------------------------------------------------------
DateBefore(a, b) ==
    \/ a[1] < b[1]
    \/ a[1] = b[1] /\ a[2] < b[2]
    \/ a[1] = b[1] /\ a[2] = b[2] /\ a[3] < b[3]

Reduced(num, den) ==
    IF num = 0 THEN [n |-> 0, d |-> 1]
    ELSE [n |-> num \div Gcd(num, den), d |-> den \div Gcd(num, den)]

AddDec(p, q) == Reduced(p.n * q.d + q.n * p.d, p.d * q.d)

MulDec(p, q) == Reduced(p.n * q.n, p.d * q.d)

RECURSIVE SumDec(_)
SumDec(s) ==
    IF s = <<>> THEN [n |-> 0, d |-> 1] ELSE AddDec(Head(s), SumDec(Tail(s)))

\* the value Sheets shows in a cell of column "Calorias": the number that
\* was typed, or what the formula INDEX(E:E, MATCH(B & D, F:F, 0)) * C gives
\* (MATCH takes the first key equal up to case)
CellValue(row, refs) ==
    IF ~row.Calorias.formula
    THEN [err |-> "none", val |-> row.Calorias.val]
    ELSE LET hit == {i \in 1..Len(refs) :
                        LowerText(refs[i].Comida \o refs[i].Unidade) =
                            LowerText(row.Comida \o row.Unidade)}
         IN  IF hit = {} \/ row.Quantidade = NoneDec
             THEN [err |-> "#N/A", val |-> NoneDec]
             ELSE LET r == refs[CHOOSE i \in hit : \A j \in hit : i <= j]
                  IN  IF r.Quantidade.n = 0
                      THEN [err |-> "#DIV/0!", val |-> NoneDec]
                      ELSE [err |-> "none",
                            val |-> MulDec(DecimalDiv(r.Calorias,
                                                      r.Quantidade).val,
                                           row.Quantidade)]

\* GSheetConnection.read of sheet "Acompanhamento": [Dia, Comida, Unidade,
\* Calorias] with the formulas evaluated
ReadEntries(entries, refs) ==
    [i \in 1..Len(entries) |->
         [Dia |-> entries[i].Dia, Comida |-> entries[i].Comida,
          Unidade |-> entries[i].Unidade,
          Calorias |-> CellValue(entries[i], refs)]]

Values(rows) == [i \in 1..Len(rows) |-> rows[i].Calorias.val]

OnDay(rows, day) == SelectSeq(rows, LAMBDA r : r.Dia = day)

\* the rows of the month of ref_date up to and including ref_date
MonthRows_WithToday(rows, ref_date) ==
    SelectSeq(rows, LAMBDA r :
        /\ ~DateBefore(ref_date, r.Dia)
        /\ ~DateBefore(r.Dia, <<ref_date[1], ref_date[2], 1>>))

\* (RefDate < ref_date) & (RefDate >= start_of_period)
MonthRows(rows, ref_date) ==
    SelectSeq(rows, LAMBDA r :
        /\ DateBefore(r.Dia, ref_date)
        /\ ~DateBefore(r.Dia, <<ref_date[1], ref_date[2], 1>>))

NoStats ==
    [today_calories |-> NoneDec, monthly_calories |-> NoneDec,
     monthly_mean |-> NoneDec]

\* groupby("RefDate").sum(): the days of the rows and the sum of each day;
\* the mean of no day at all is nan
CaloriesStats(rows, month, ref_date) ==
    LET days == {month[i].Dia : i \in 1..Len(month)}
        total == SumDec(Values(month))
    IN  [today_calories |-> SumDec(Values(OnDay(rows, ref_date))),
         monthly_calories |-> total,
         monthly_mean |-> IF days = {} THEN NoneDec
                          ELSE MulDec(total, [n |-> 1, d |-> Cardinality(days)])]

\* get_monthly_calories: pd.to_numeric raises ValueError on a cell that
\* shows an error; the standard deviation is left out of the figures
get_monthly_calories(rows, ref_date) ==
    IF \E i \in 1..Len(rows) : rows[i].Calorias.err # "none"
    THEN [exc |-> "ValueError", stats |-> NoStats]
    ELSE [exc |-> "none",
          stats |-> CaloriesStats(rows, MonthRows(rows, ref_date), ref_date)]

\* get_monthly_expenses: the values of the "Despesa" rows of the month
get_monthly_expenses(entries, year, month) ==
    LET spent == SelectSeq(entries, LAMBDA r :
                     /\ r.Conta = <<"D", "e", "s", "p", "e", "s", "a">>
                     /\ r.Data[1] = year /\ r.Data[2] = month)
    IN  [exc |-> "none",
         stats |-> [count |-> Len(spent),
                    total |-> SumDec([i \in 1..Len(spent) |->
                                         spent[i].Valor])]]

NoReply ==
    [sent |-> FALSE, ok |-> <<>>, miss |-> <<>>, err |-> <<>>, nok |-> {},
     summary |-> FALSE, cals |-> NoStats]

\* ------------------------------------------------------------------------
\* The chat, the spreadsheet and the tracker object
\* ------------------------------------------------------------------------
VARIABLES
    tracker,              \* "calories" or "expenses": the tracker that runs
    pc,                   \* where run() stands
    exc,                  \* the exception that ended the process, or "none"
    chat,                 \* the Telegram chat, oldest message first
    posts,                \* messages posted by users so far
    sheet_entries,        \* sheet "Acompanhamento" / "Entradas"
    sheet_registrations,  \* sheet "Referência"
    sheet_telegram,       \* sheet "Telegram"
    entries_df, registrations_df, processed_msgs,
    fetched,              \* what fetch_telegram_messages returned
    msgs, cur, lines,     \* the loops of process_received_messages
    registrations, help_wanted, answered,
    to_upload, new_registrations, missing_registration, failed_to_parse,
    asked_for_help,
    reply,                \* the report of send_feedback_messages, by sections
    store_log             \* the calls of GSheetConnection made by this run()

vars ==
    <<tracker, pc, exc, chat, posts, sheet_entries, sheet_registrations,
      sheet_telegram, entries_df, registrations_df, processed_msgs, fetched,
      msgs, cur, lines, registrations, help_wanted, answered, to_upload,
      new_registrations, missing_registration, failed_to_parse,
      asked_for_help, reply, store_log>>

runVars == <<reply, store_log>>
chatVars == <<chat, posts>>
sheetVars == <<sheet_entries, sheet_registrations, sheet_telegram>>
dfVars == <<entries_df, registrations_df, processed_msgs>>
loopVars == <<fetched, msgs, cur, lines, registrations, help_wanted, answered>>
bucketVars ==
    <<to_upload, new_registrations, missing_registration, failed_to_parse,
      asked_for_help>>

\* client.get_messages(chat_id, limit=100)
FetchLimit == 100

\* the date Telegram stamps on the messages
MsgDate == <<2024, 1, 15>>

\* dt.datetime.now().date(): the day of the run is the day of the posts
Today == MsgDate

\* what users type in the calories chat
CaloriesTexts ==
    {<<"@", "A", "-", "5", "c", "a", "l", "/", "1", "g">>,
     <<"a_acute", "-", "2", "G">>,
     <<"a", "-", "2", "g", "\n", "@", "A", "-", "5", "c", "a", "l", "/", "1", "g">>,
     <<"@", "A", "-", "5", "c", "a", "l", "/", "1", "g", "\n", "a", "-", "2", "g">>,
     <<"?">>,
     <<"#", "x">>,
     NoneText,
     <<"a", "-", "x">>,
     <<"a", "\n", "b", "-", "7", "c", "a", "l">>,
     <<"@", "B", "-", "1", "c", "a", "l", "/", "1", "g", "\n", "a", "-", "2", "g">>,
     <<"a", "-", "2", "g", "-", "x", "-", "y", "-", "z">>,
     <<"b", "-", "7", "c", "a", "l", "\n", "c", "-", "7", "c", "a", "l">>}

\* what users type in the expenses chat
ExpensesTexts ==
    {<<"5", "-", "u", "-", "d", "-", "n">>,
     <<"5", ",", "5", "-", "u", "-", "d", "-", "x">>,
     <<"?">>,
     <<"#", "x">>,
     NoneText,
     <<"5", "-", "u", "-", "d", "-", "n", "-", "x">>,
     <<"x">>}

\* sheet "Contas": [Conta, Tipo]
SheetContas ==
    <<[Conta |-> <<"N">>, Tipo |-> "Asset"],
      [Conta |-> <<"C">>, Tipo |-> "Liability"],
      [Conta |-> <<"D">>, Tipo |-> "Expense"]>>

\* the rows of sheet "Referência" before the first run
InitialRegistrations ==
    {<<>>,
     <<[Comida |-> <<"A">>, Calorias |-> [n |-> 5, d |-> 1],
        Quantidade |-> [n |-> 1, d |-> 1], Unidade |-> <<"g">>,
        MsgId |-> 0]>>}

NoMessage == Message(0, NoneDate, NoneText, 0)

\* the loop state of the running pass, as one record
PassState ==
    [to_upload |-> to_upload, new_registrations |-> new_registrations,
     missing_registration |-> missing_registration,
     failed_to_parse |-> failed_to_parse, asked_for_help |-> asked_for_help,
     registrations |-> registrations, help_wanted |-> help_wanted,
     answered |-> answered, exc |-> "none"]

SetPassState(st) ==
    /\ to_upload' = st.to_upload
    /\ new_registrations' = st.new_registrations
    /\ missing_registration' = st.missing_registration
    /\ failed_to_parse' = st.failed_to_parse
    /\ asked_for_help' = st.asked_for_help
    /\ registrations' = st.registrations
    /\ help_wanted' = st.help_wanted
    /\ answered' = st.answered

\* Tracker.__post_init__
Init ==
    /\ tracker \in {"calories", "expenses"}
    /\ pc = "idle"
    /\ exc = "none"
    /\ chat = <<>>
    /\ posts = 0
    /\ sheet_entries = <<>>
    /\ sheet_registrations \in
           (IF tracker = "calories" THEN InitialRegistrations ELSE {<<>>})
    /\ sheet_telegram = <<>>
    /\ entries_df = <<>>
    /\ registrations_df = <<>>
    /\ processed_msgs = {}
    /\ fetched = <<>>
    /\ msgs = <<>>
    /\ cur = NoMessage
    /\ lines = <<>>
    /\ registrations = <<>>
    /\ help_wanted = <<>>
    /\ answered = {}
    /\ to_upload = <<>>
    /\ new_registrations = <<>>
    /\ missing_registration = <<>>
    /\ failed_to_parse = <<>>
    /\ asked_for_help = <<>>
    /\ reply = NoReply
    /\ store_log = <<>>

\* a user posts a message, possibly as a reply to an earlier one.  Only the
\* fetch and the sends of a run read or write the chat, so a post is taken
\* between two runs or between the fetch and the sends of a run: a post at
\* any other point commutes with the steps up to one of these two.
Post ==
    /\ posts < MaxPosts
    /\ pc \in {"idle", "processed"}
    /\ \E text \in (IF tracker = "calories" THEN CaloriesTexts
                    ELSE ExpensesTexts),
          reply_to \in 0..Len(chat) :
          chat' = Append(chat, Message(Len(chat) + 1, MsgDate, text, reply_to))
    /\ posts' = posts + 1
    /\ UNCHANGED <<tracker, pc, exc, sheetVars, dfVars, loopVars, bucketVars,
                   runVars>>

\* TelegramConnection.send_msg
Sent(ch, text, reply_to) ==
    Append(ch, Message(Len(ch) + 1, MsgDate, text, reply_to))

\* TelegramConnection.fetch_msgs: the newest FetchLimit messages, newest first
fetch_telegram_messages ==
    LET n == IF Len(chat) < FetchLimit THEN Len(chat) ELSE FetchLimit
    IN  [i \in 1..n |-> chat[Len(chat) + 1 - i]]

\* {int(i) for i in df["MsgId"].values if i}
fetch_processed_messages == {sheet_telegram[i].MsgId : i \in 1..Len(sheet_telegram)}

fetch_gsheet_state ==
    /\ entries_df' = sheet_entries
    /\ registrations_df' = sheet_registrations
    /\ processed_msgs' = fetch_processed_messages

\* the ledger left unread: fetch_gsheet_state reads two sheets only
StateReads_NoLedger ==
    IF tracker = "calories"
    THEN <<[op |-> "read", sheet |-> "Acompanhamento"],
           [op |-> "read", sheet |-> "Referencia"]>>
    ELSE <<[op |-> "read", sheet |-> "Entradas"],
           [op |-> "read", sheet |-> "Contas"]>>

\* the calls of GSheetConnection.read made by fetch_gsheet_state
StateReads ==
    IF tracker = "calories"
    THEN <<[op |-> "read", sheet |-> "Acompanhamento"],
           [op |-> "read", sheet |-> "Referencia"],
           [op |-> "read", sheet |-> "Telegram"]>>
    ELSE <<[op |-> "read", sheet |-> "Entradas"],
           [op |-> "read", sheet |-> "Contas"],
           [op |-> "read", sheet |-> "Telegram"]>>

\* df = self.fetch_entries() at the top of the calories reply
EntriesRead ==
    IF tracker = "calories"
    THEN <<[op |-> "read", sheet |-> "Acompanhamento"]>>
    ELSE <<>>

Written(sheet) == <<[op |-> "write", sheet |-> sheet]>>

FetchGSheetState ==
    /\ pc = "idle"
    /\ fetch_gsheet_state
    /\ store_log' = store_log \o StateReads
    /\ pc' = "fetched"
    /\ UNCHANGED <<tracker, exc, chatVars, sheetVars, loopVars, bucketVars,
                   reply>>

\* accounts = the "Conta" of the rows whose "Tipo" is Asset or Liability
Accounts ==
    {SheetContas[i].Conta : i \in {k \in 1..Len(SheetContas) :
                                 SheetContas[k].Tipo \in {"Asset", "Liability"}}}

\* registrations_df[["Comida", "Unidade"]].values.tolist()
RegistrationPairs(df) == [i \in 1..Len(df) |-> <<df[i].Comida, df[i].Unidade>>]

\* ------------------------------------------------------------------------
\* run(): process_received_messages
\* ------------------------------------------------------------------------
\* the fetch, the filter, the early return, the sort
ProcessBegin ==
    /\ pc = "fetched"
    /\ LET f == fetch_telegram_messages
           m == FilterProcessed(f, processed_msgs)
           g == IF tracker = "calories" THEN CaloriesGuard(m)
                ELSE IF m = <<>> THEN "return" ELSE "go"
       IN  /\ fetched' = f
           /\ IF g = "go"
              THEN /\ msgs' = (IF tracker = "calories"
                               THEN SortRegistrationsFirst(m) ELSE m)
                   /\ registrations' =
                          (IF tracker = "calories"
                           THEN RegistrationPairs(registrations_df) ELSE <<>>)
                   /\ help_wanted' = <<>>
                   /\ answered' = {}
                   /\ pc' = "loop"
                   /\ exc' = exc
              ELSE /\ pc' = (IF g = "return" THEN "processed" ELSE "aborted")
                   /\ exc' = (IF g = "return" THEN exc ELSE g)
                   /\ UNCHANGED <<msgs, registrations, help_wanted, answered>>
    /\ UNCHANGED <<tracker, chatVars, sheetVars, dfVars, cur, lines,
                   bucketVars, runVars>>

\* one iteration of "for msg in msgs" up to its lines
ProcessMessage ==
    /\ pc = "loop"
    /\ msgs # <<>>
    /\ LET msg == Head(msgs)
           s1  == MsgHead(PassState, msg)
       IN  /\ msgs' = Tail(msgs)
           /\ cur' = msg
           /\ IF tracker = "calories"
              THEN /\ SetPassState(s1)
                   /\ lines' = MsgLines(msg)
                   /\ pc' = (IF MsgLines(msg) = <<>> THEN "loop" ELSE "lines")
                   /\ exc' = exc
              ELSE /\ lines' = lines
                   /\ IF ExpenseParses(msg)
                      THEN \E s2 \in ExpenseStep(s1, msg, Accounts) :
                               /\ SetPassState(s2)
                               /\ exc' = s2.exc
                               /\ pc' = (IF s2.exc = "none" THEN "loop"
                                         ELSE "aborted")
                      ELSE /\ SetPassState(s1)
                           /\ pc' = "loop"
                           /\ exc' = exc
    /\ UNCHANGED <<tracker, chatVars, sheetVars, dfVars, fetched, runVars>>

\* one iteration of "for line in original_text.splitlines()"
LineDone(s2) ==
    /\ SetPassState(s2)
    /\ exc' = s2.exc
    /\ pc' = (IF s2.exc # "none" THEN "aborted"
              ELSE IF Tail(lines) = <<>> THEN "loop" ELSE "lines")

ProcessLine ==
    /\ pc = "lines"
    /\ LineDone(LineStep(PassState, cur, Head(lines)))
    /\ cur' = [cur EXCEPT !.text = Head(lines)]
    /\ lines' = Tail(lines)
    /\ UNCHANGED <<tracker, chatVars, sheetVars, dfVars, fetched, msgs,
                   runVars>>

\* the reversals and asked_for_help.extend after the loop
ProcessEnd ==
    /\ pc = "loop"
    /\ msgs = <<>>
    /\ SetPassState(IF tracker = "calories" THEN CaloriesFinish(PassState)
                    ELSE ExpensesFinish(PassState))
    /\ pc' = "processed"
    /\ UNCHANGED <<tracker, exc, chatVars, sheetVars, dfVars, fetched, msgs,
                   cur, lines, runVars>>

\* ------------------------------------------------------------------------
\* run(): update_gsheet_state
\* ------------------------------------------------------------------------
\* a falsy Decimal (None or zero) gets the spreadsheet formula
CaloriesCell(m) ==
    IF m.calories = NoneDec \/ m.calories.n = 0
    THEN [formula |-> TRUE, val |-> NoneDec]
    ELSE [formula |-> FALSE, val |-> m.calories]

CaloriesEntryRows(up) ==
    [i \in 1..Len(up) |->
         [Dia |-> up[i].date, Comida |-> up[i].description,
          Quantidade |-> up[i].quantity, Unidade |-> up[i].unit,
          Calorias |-> CaloriesCell(up[i]), MsgId |-> up[i].id]]

\* the account row written with the price as it is
Negated_SameSign(p) == p

Negated(p) == [n |-> 0 - p.n, d |-> p.d]

RECURSIVE ExpensesEntryRows(_)
ExpensesEntryRows(up) ==
    IF up = <<>> THEN <<>>
    ELSE LET m == Head(up)
             row(a, p) ==
                 [Data |-> m.date, Contraparte |-> m.counterparty,
                  Descricao |-> m.description, Conta |-> a, Valor |-> p,
                  MsgId |-> m.id]
         IN  <<row(<<"D", "e", "s", "p", "e", "s", "a">>, m.price),
               row(m.account, Negated(m.price))>> \o
             ExpensesEntryRows(Tail(up))

\* the ledger written where the entries should be, the entries not at all
UploadEntries_LedgerFirst ==
    /\ pc = "processed"
    /\ sheet_telegram' = sheet_telegram \o
           [i \in 1..Len(to_upload) |->
                [MsgId |-> to_upload[i].id, Status |-> "SUCCESS"]]
    /\ store_log' = store_log \o Written("Telegram")
    /\ pc' = (IF tracker = "calories" THEN "entries_up" ELSE "regs_up")
    /\ UNCHANGED <<tracker, exc, chatVars, sheet_entries,
                   sheet_registrations, dfVars, loopVars, bucketVars, reply>>

UploadEntries ==
    /\ pc = "processed"
    /\ sheet_entries' = sheet_entries \o
           (IF tracker = "calories" THEN CaloriesEntryRows(to_upload)
            ELSE ExpensesEntryRows(to_upload))
    /\ store_log' = store_log \o
           Written(IF tracker = "calories" THEN "Acompanhamento"
                   ELSE "Entradas")
    /\ pc' = (IF tracker = "calories" THEN "entries_up" ELSE "regs_up")
    /\ UNCHANGED <<tracker, exc, chatVars, sheet_registrations,
                   sheet_telegram, dfVars, loopVars, bucketVars, reply>>

RegistrationRows(regs) ==
    [i \in 1..Len(regs) |->
         [Comida |-> regs[i].description, Calorias |-> regs[i].calories,
          Quantidade |-> regs[i].quantity, Unidade |-> regs[i].unit,
          MsgId |-> regs[i].id]]

UploadNewRegistrations ==
    /\ pc = "entries_up"
    /\ sheet_registrations' =
           sheet_registrations \o RegistrationRows(new_registrations)
    /\ store_log' = store_log \o Written("Referencia")
    /\ pc' = "regs_up"
    /\ UNCHANGED <<tracker, exc, chatVars, sheet_entries, sheet_telegram,
                   dfVars, loopVars, bucketVars, reply>>

StatusRows(bucket, status) ==
    [i \in 1..Len(bucket) |-> [MsgId |-> bucket[i].id, Status |-> status]]

\* the FAILURE rows left out of the ledger
ProcessedRows_NoFailure(up, regs, failed, asked) ==
    StatusRows(up, "SUCCESS") \o StatusRows(regs, "SUCCESS") \o
    StatusRows(asked, "ASKED_FOR_HELP")

\* the rows upload_processed_messages appends to sheet "Telegram"
ProcessedRows(up, regs, failed, asked) ==
    StatusRows(up, "SUCCESS") \o StatusRows(regs, "SUCCESS") \o
    StatusRows(failed, "FAILURE") \o StatusRows(asked, "ASKED_FOR_HELP")

UploadProcessedMessages ==
    /\ pc = "regs_up"
    /\ sheet_telegram' = sheet_telegram \o
           ProcessedRows(to_upload, new_registrations, failed_to_parse,
                         asked_for_help)
    /\ store_log' = store_log \o Written("Telegram")
    /\ pc' = "uploaded"
    /\ UNCHANGED <<tracker, exc, chatVars, sheet_entries,
                   sheet_registrations, dfVars, loopVars, bucketVars, reply>>

\* ------------------------------------------------------------------------
\* run(): send_feedback_messages and clean_local_state
\* ------------------------------------------------------------------------
\* the texts sent: the header, then the report or the help text
FeedbackText == TEXT_HEADER \o <<"<report>">>

HelpText == TEXT_HEADER \o <<"<help>">>

\* "if self.quantity", "if self.calories": None and zero are left out
Shown(dec) == dec # NoneDec /\ dec.n # 0

\* MealMessage.__str__
MealText(m) ==
    [kind |-> "meal", description |-> m.description,
     qty |-> IF Shown(m.quantity) THEN <<m.quantity, m.unit>> ELSE <<>>,
     cals |-> IF Shown(m.calories) THEN <<m.calories>> ELSE <<>>,
     date |-> m.date]

\* CalorieRegistration.__str__
RegistrationText(m) ==
    [kind |-> "registration", description |-> m.description,
     qty |-> <<m.quantity, m.unit>>, cals |-> <<m.calories>>,
     date |-> NoneDate]

\* ExpenseMessage.__str__
ExpenseText(m) ==
    [kind |-> "expense", price |-> m.price, counterparty |-> m.counterparty,
     description |-> m.description, account |-> m.account, date |-> m.date]

\* ok_msgs: the bullets of to_upload (+ new_registrations), in their order
OkMsgs ==
    IF tracker = "calories"
    THEN [i \in 1..Len(to_upload) |-> MealText(to_upload[i])] \o
         [i \in 1..Len(new_registrations) |->
              RegistrationText(new_registrations[i])]
    ELSE [i \in 1..Len(to_upload) |-> ExpenseText(to_upload[i])]

\* nok_msgs: set(f"\t-> {m.text}" for m in self.failed_to_parse)
NokMsgs == {failed_to_parse[i].text : i \in 1..Len(failed_to_parse)}

\* miss_msgs: the calories tracker only
MissMsgs ==
    IF tracker = "calories"
    THEN [i \in 1..Len(missing_registration) |-> missing_registration[i].text]
    ELSE <<>>

\* error_msgs: the rows of df = self.fetch_entries() that show "#N/A"
ErrorMsgs ==
    IF tracker = "calories"
    THEN LET df == SelectSeq(ReadEntries(sheet_entries, sheet_registrations),
                             LAMBDA r : r.Calorias.err = "#N/A")
         IN  [i \in 1..Len(df) |-> <<df[i].Comida, df[i].Unidade>>]
    ELSE <<>>

\* the summary paragraph written whatever the run did
SummaryShown_Always(ok_msgs) == TRUE

\* "if ok_msgs:" before the monthly figures are computed
SummaryShown(ok_msgs) == ok_msgs # <<>>

\* stats = self.get_monthly_calories(today) / self.get_monthly_expenses(...)
MonthlyStats ==
    IF tracker = "calories"
    THEN get_monthly_calories(
             ReadEntries(sheet_entries, sheet_registrations), Today)
    ELSE get_monthly_expenses(sheet_entries, Today[1], Today[2])

\* text: one section for each non-empty list of bullets, then cals_text
ReportText(ok, miss, err, nok, summary, cals) ==
    [sent |-> ok # <<>> \/ nok # {} \/ miss # <<>>,
     ok |-> ok, miss |-> miss, err |-> err, nok |-> nok,
     summary |-> summary, cals |-> IF summary THEN cals ELSE NoStats]

SendFeedbackMessages ==
    /\ pc = "uploaded"
    /\ IF to_upload = <<>> /\ failed_to_parse = <<>> /\ asked_for_help = <<>>
       THEN /\ pc' = "sent"
            /\ UNCHANGED <<exc, chat, dfVars, reply, store_log>>
       ELSE IF SummaryShown(OkMsgs) /\ MonthlyStats.exc # "none"
       THEN /\ fetch_gsheet_state
            /\ store_log' = store_log \o EntriesRead \o StateReads
            /\ pc' = "aborted"
            /\ exc' = MonthlyStats.exc
            /\ UNCHANGED <<chat, reply>>
       ELSE /\ IF SummaryShown(OkMsgs)
               THEN /\ fetch_gsheet_state
                    /\ store_log' = store_log \o EntriesRead \o StateReads
               ELSE /\ UNCHANGED dfVars
                    /\ store_log' = store_log \o EntriesRead
            /\ reply' = ReportText(OkMsgs, MissMsgs, ErrorMsgs, NokMsgs,
                                   SummaryShown(OkMsgs), MonthlyStats.stats)
            /\ chat' = (IF asked_for_help # <<>>
                        THEN Sent(IF reply'.sent
                                  THEN Sent(chat, FeedbackText, 0) ELSE chat,
                                  HelpText,
                                  asked_for_help[Len(asked_for_help)].id)
                        ELSE IF reply'.sent
                        THEN Sent(chat, FeedbackText, 0) ELSE chat)
            /\ pc' = "sent"
            /\ exc' = exc
    /\ UNCHANGED <<tracker, posts, sheetVars, loopVars, bucketVars>>

\* the locals of process_received_messages are gone once run() is over
ForgetLocals ==
    /\ fetched' = <<>>
    /\ msgs' = <<>>
    /\ cur' = NoMessage
    /\ lines' = <<>>
    /\ registrations' = <<>>
    /\ help_wanted' = <<>>
    /\ answered' = {}

\* the end of run() with the five lists kept: only the snapshots are dropped
CleanLocalState_KeepsBuckets ==
    /\ pc = "sent"
    /\ entries_df' = <<>>
    /\ registrations_df' = <<>>
    /\ processed_msgs' = {}
    /\ ForgetLocals
    /\ reply' = NoReply
    /\ store_log' = <<>>
    /\ pc' = "idle"
    /\ UNCHANGED <<tracker, exc, chatVars, sheetVars, bucketVars>>

CleanLocalState ==
    /\ pc = "sent"
    /\ to_upload' = <<>>
    /\ new_registrations' = <<>>
    /\ missing_registration' = <<>>
    /\ failed_to_parse' = <<>>
    /\ asked_for_help' = <<>>
    /\ entries_df' = <<>>
    /\ registrations_df' = <<>>
    /\ processed_msgs' = {}
    /\ ForgetLocals
    /\ reply' = NoReply
    /\ store_log' = <<>>
    /\ pc' = "idle"
    /\ UNCHANGED <<tracker, exc, chatVars, sheetVars>>

\* the process died of the exception; the next start builds a new tracker
Restart ==
    /\ pc = "aborted"
    /\ pc' = "idle"
    /\ exc' = "none"
    /\ to_upload' = <<>>
    /\ new_registrations' = <<>>
    /\ missing_registration' = <<>>
    /\ failed_to_parse' = <<>>
    /\ asked_for_help' = <<>>
    /\ entries_df' = <<>>
    /\ registrations_df' = <<>>
    /\ processed_msgs' = {}
    /\ ForgetLocals
    /\ reply' = NoReply
    /\ store_log' = <<>>
    /\ UNCHANGED <<tracker, chatVars, sheetVars>>

Next ==
    \/ Post
    \/ FetchGSheetState
    \/ ProcessBegin
    \/ ProcessMessage
    \/ ProcessLine
    \/ ProcessEnd
    \/ UploadEntries
    \/ UploadNewRegistrations
    \/ UploadProcessedMessages
    \/ SendFeedbackMessages
    \/ CleanLocalState
    \/ Restart

Spec == Init /\ [][Next]_vars

\* ------------------------------------------------------------------------
\* One run over one message: the line and the rows of the sheet are drawn
\* ------------------------------------------------------------------------
QtyChars == {"0", "1", "2", "/", ".", " ", "g"}

RECURSIVE Texts(_)
Texts(k) ==
    IF k = 0 THEN {<<>>}
    ELSE Texts(k - 1) \cup
         {Append(t, c) : t \in Texts(k - 1), c \in QtyChars}

\* quantity texts: all the short ones and some of the help text's kind
QtyTexts ==
    Texts(MaxQty) \cup
    {<<"1", "/", "2", " ", "u", "n">>, <<"1", "0", "0", " ", "g">>,
     <<"2", " ", "m", "2">>, <<"x">>, <<"a", "b", "c">>,
     <<"1", "/", "0", "g">>, <<"0", "/", "0", "g">>, <<"0", ".", "5", "g">>}

\* "a - QTY" and "@A - 5 cal/QTY"
CaloriesLineTexts ==
    {<<"a", "-">> \o q : q \in QtyTexts} \cup
    {<<"@", "A", "-", "5", "c", "a", "l", "/">> \o q : q \in QtyTexts}

\* messages of several lines, and lines with calories given
CaloriesMessageTexts ==
    {<<"b", "-", "7", "c", "a", "l">>,
     <<"b", "-", "0", "c", "a", "l">>,
     <<"a", "-", "2", "g", "\n", "?">>,
     <<"?", "\n", "a", "-", "2", "g">>,
     <<" ", "?", " ">>,
     <<"?", "\n", "?">>,
     <<"a", "-", "x", "\n", "b", "-", "7", "c", "a", "l">>,
     <<"@", "A", "-", "5", "c", "a", "l", "/", "1", "g">>,
     <<"a", "-", "2", "g">>,
     <<"a">>,
     <<"b", "-", "7", "c", "a", "l", "-",
       "1", "4", "/", "0", "1", "/", "2", "0", "2", "4", "-", "x", "-", "y">>,
     <<"b", "-", "7", "c", "a", "l", "-", "x", "-",
       "1", "4", "/", "0", "1", "/", "2", "0", "2", "4">>,
     <<"b", "-", "7", "c", "a", "l", "-", "x">>}

\* "PRECO - CONTRAPARTE - DESCRICAO - CONTA - DATA"
ExpensesLineTexts ==
    {<<"5", "-", "u", "-", "d", "-", "n">>,
     <<"5", "-", "u", "-", "d", "-", " ", "N", " ">>,
     <<"5", "-", "u", "-", "d", "-", "c">>,
     <<"5", "-", "u", "-", "d", "-", "x">>,
     <<"5", "-", "u", "-", "d", "-", "d">>,
     <<"5", "-", "u", "-", "d">>,
     <<"x", "-", "u", "-", "d", "-", "n">>,
     <<"5", ".", "5", "-", "u", "-", "d", "-", "n">>,
     <<"5", "-", "u", "-", "d", "-", "n", "-",
       "2", "0", "2", "3", "-", "1", "2", "-", "2", "8">>,
     <<"5", "-", "u", "-", "d", "-", "n", "-",
       "2", "8", "/", "1", "2", "/", "2", "0", "2", "3">>,
     <<"5", "-", "u", "-", "d", "-", "x", "-",
       "2", "8", "/", "1", "2", "/", "2", "0", "2", "3">>,
     <<"?">>}

\* the days of the rows already in the sheet: before the month, in it,
\* today and after today
HistoryDays ==
    {<<2023, 12, 31>>, <<2024, 1, 1>>, <<2024, 1, 14>>, Today,
     <<2024, 1, 16>>}

\* a row of sheet "Acompanhamento" with its calories typed in
HistoryRow(day) ==
    [Dia |-> day, Comida |-> <<"h">>, Quantidade |-> NoneDec,
     Unidade |-> NoneText,
     Calorias |-> [formula |-> FALSE, val |-> [n |-> day[3], d |-> 1]],
     MsgId |-> 0]

RECURSIVE Histories(_)
Histories(k) ==
    IF k = 0 THEN {<<>>}
    ELSE Histories(k - 1) \cup
         {Append(h, HistoryRow(day)) : h \in Histories(k - 1),
                                       day \in HistoryDays}

\* a history with every kind of day, two rows on one of them
FullHistory ==
    <<HistoryRow(<<2023, 12, 31>>), HistoryRow(<<2024, 1, 1>>),
      HistoryRow(<<2024, 1, 14>>), HistoryRow(<<2024, 1, 14>>),
      HistoryRow(Today), HistoryRow(<<2024, 1, 16>>)>>

LineInputs ==
    {[tracker |-> "calories", text |-> t, refs |-> r, rows |-> h] :
         t \in CaloriesLineTexts, r \in InitialRegistrations,
         h \in {<<>>, FullHistory}} \cup
    {[tracker |-> "calories", text |-> t, refs |-> r, rows |-> h] :
         t \in CaloriesMessageTexts, r \in InitialRegistrations,
         h \in Histories(MaxRows) \cup {FullHistory}} \cup
    {[tracker |-> "expenses", text |-> t, refs |-> <<>>, rows |-> <<>>] :
         t \in ExpensesLineTexts}

\* the tracker is built and one message waits in the chat
InitLines ==
    /\ \E in \in LineInputs :
           /\ tracker = in.tracker
           /\ chat = <<Message(1, MsgDate, in.text, 0)>>
           /\ sheet_entries = in.rows
           /\ sheet_registrations = in.refs
    /\ posts = 1
    /\ pc = "idle"
    /\ exc = "none"
    /\ sheet_telegram = <<>>
    /\ entries_df = <<>>
    /\ registrations_df = <<>>
    /\ processed_msgs = {}
    /\ fetched = <<>>
    /\ msgs = <<>>
    /\ cur = NoMessage
    /\ lines = <<>>
    /\ registrations = <<>>
    /\ help_wanted = <<>>
    /\ answered = {}
    /\ to_upload = <<>>
    /\ new_registrations = <<>>
    /\ missing_registration = <<>>
    /\ failed_to_parse = <<>>
    /\ asked_for_help = <<>>
    /\ reply = NoReply
    /\ store_log = <<>>

\* run() after run() with no new post
Run ==
    \/ FetchGSheetState
    \/ ProcessBegin
    \/ ProcessMessage
    \/ ProcessLine
    \/ ProcessEnd
    \/ UploadEntries
    \/ UploadNewRegistrations
    \/ UploadProcessedMessages
    \/ SendFeedbackMessages
    \/ CleanLocalState
    \/ Restart

SpecLines == InitLines /\ [][Run]_vars

\* ------------------------------------------------------------------------
\* Runs in which a write to the spreadsheet may fail
\* ------------------------------------------------------------------------
\* the rows appended by the tracker whose message id the ledger does not hold
OrphanRows ==
    Len(SelectSeq(sheet_entries, LAMBDA r :
            r.MsgId # 0 /\ r.MsgId \notin fetch_processed_messages)) +
    Len(SelectSeq(sheet_registrations, LAMBDA r :
            r.MsgId # 0 /\ r.MsgId \notin fetch_processed_messages))

\* GSheetConnection.write: values().append(...).execute() raises, nothing is
\* appended and the exception ends run()
WriteFails ==
    /\ pc \in {"processed", "entries_up", "regs_up"}
    /\ OrphanRows <= MaxOrphanRows
    /\ pc' = "aborted"
    /\ exc' = "HttpError"
    /\ UNCHANGED <<tracker, chatVars, sheetVars, dfVars, loopVars, bucketVars,
                   runVars>>

\* one message waits in the chat and the sheet of entries is empty
InitWrites ==
    /\ InitLines
    /\ sheet_entries = <<>>
    /\ chat[1].text \in CaloriesMessageTexts \cup ExpensesLineTexts

RunOrFail ==
    \/ Run
    \/ WriteFails

SpecWrites == InitWrites /\ [][RunOrFail]_vars

\* ------------------------------------------------------------------------
\* process_received_messages as a whole: the final loop states of a pass
\* over the messages `all` with the reference rows df and the ledger ids
\* ------------------------------------------------------------------------
RECURSIVE CaloriesLines(_, _, _)
CaloriesLines(st, msg, ls) ==
    IF ls = <<>> \/ st.exc # "none" THEN st
    ELSE CaloriesLines(LineStep(st, msg, Head(ls)), msg, Tail(ls))

RECURSIVE CaloriesLoop(_, _)
CaloriesLoop(st, ms) ==
    IF ms = <<>> \/ st.exc # "none" THEN st
    ELSE CaloriesLoop(CaloriesLines(MsgHead(st, Head(ms)), Head(ms),
                                    MsgLines(Head(ms))),
                      Tail(ms))

CaloriesPass(all, df, processed) ==
    LET m   == FilterProcessed(all, processed)
        g   == CaloriesGuard(m)
        st0 == NewPass(RegistrationPairs(df))
    IN  IF g = "return" THEN {st0}
        ELSE IF g # "go" THEN {[st0 EXCEPT !.exc = g]}
        ELSE LET s == CaloriesLoop(st0, SortRegistrationsFirst(m))
             IN  {IF s.exc = "none" THEN CaloriesFinish(s) ELSE s}

RECURSIVE ExpensesLoop(_, _)
ExpensesLoop(S, ms) ==
    IF ms = <<>> THEN S
    ELSE LET h == Head(ms)
             after(s) ==
                 IF s.exc # "none" THEN {s}
                 ELSE IF ExpenseParses(h)
                 THEN ExpenseStep(MsgHead(s, h), h, Accounts)
                 ELSE {MsgHead(s, h)}
         IN  ExpensesLoop(UNION {after(s) : s \in S}, Tail(ms))

ExpensesPass(all, processed) ==
    LET m == FilterProcessed(all, processed)
    IN  IF m = <<>> THEN {NewPass(<<>>)}
        ELSE {IF s.exc = "none" THEN ExpensesFinish(s) ELSE s :
              s \in ExpensesLoop({NewPass(<<>>)}, m)}

\* ------------------------------------------------------------------------
\* Properties
\* ------------------------------------------------------------------------
Ids(bucket) == {bucket[i].id : i \in 1..Len(bucket)}

BucketIds ==
    Ids(to_upload) \cup Ids(new_registrations) \cup Ids(missing_registration)
    \cup Ids(failed_to_parse) \cup Ids(asked_for_help)

\* the pass run again over the messages this run fetched, with the reference
\* rows this run read and the ledger as it stands after the upload
SecondPass ==
    IF tracker = "calories"
    THEN CaloriesPass(fetched, registrations_df, fetch_processed_messages)
    ELSE ExpensesPass(fetched, fetch_processed_messages)

\* C1 as stated: after a full pass (process_received_messages, then
\* upload_processed_messages), a second pass over the same fetched messages,
\* with the ledger now holding every id the first pass wrote, leaves all
\* five buckets empty.
C1_SecondPassAllEmpty ==
    pc = "uploaded" =>
        \A s \in SecondPass :
            /\ s.to_upload = <<>>
            /\ s.new_registrations = <<>>
            /\ s.missing_registration = <<>>
            /\ s.failed_to_parse = <<>>
            /\ s.asked_for_help = <<>>

\* C1 amended: the second pass, run with the reference rows of the first,
\* uploads nothing, registers nothing and reports no format failure again:
\* to_upload, new_registrations and failed_to_parse are empty, and no bucket
\* holds an id the first pass wrote to the ledger.  (missing_registration and
\* asked_for_help may be non-empty.)
C1_SecondPassNoDuplicates ==
    pc = "uploaded" =>
        \A s \in SecondPass :
            /\ s.to_upload = <<>>
            /\ s.new_registrations = <<>>
            /\ s.failed_to_parse = <<>>
            /\ (Ids(s.missing_registration) \cup Ids(s.asked_for_help))
                   \cap fetch_processed_messages = {}

\* a first pass that uploaded an entry and recorded a format failure
C1_Witness ==
    /\ pc = "uploaded"
    /\ to_upload # <<>>
    /\ failed_to_parse # <<>>
    /\ Len(fetched) >= 2

\* C2: in every run of either tracker, no entry of any bucket carries the id
\* of a message that was in processed_msgs as read at the start of the run.
C2_NeverReprocessed ==
    pc \in {"loop", "lines", "processed", "entries_up", "regs_up",
            "uploaded", "aborted"} =>
        BucketIds \cap processed_msgs = {}

\* a pass that filled a bucket while an already processed message was fetched
C2_Witness ==
    /\ pc = "processed"
    /\ BucketIds # {}
    /\ \E i \in 1..Len(fetched) : fetched[i].id \in processed_msgs

\* C3 as stated: in the calories tracker no parser error escapes
\* process_received_messages, so no line that fails to parse keeps the other
\* lines of the batch from being classified.
C3_NoParserErrorEscapes ==
    tracker = "calories" =>
        ~(pc = "aborted" /\ exc \in {"ValueError", "DivisionByZero"})

Pair(r) == <<r.description, r.unit>>

\* C4 as stated: a registration line whose (description, unit) is already in
\* the reference snapshot, or was registered by an earlier line of the batch,
\* is rejected: it is not appended to new_registrations.
C4_DuplicateRejected ==
    (tracker = "calories" /\ pc = "processed") =>
        /\ \A i \in 1..Len(new_registrations) :
               \A k \in 1..Len(registrations_df) :
                   Pair(new_registrations[i]) #
                       <<registrations_df[k].Comida, registrations_df[k].Unidade>>
        /\ \A i, j \in 1..Len(new_registrations) :
               i # j => Pair(new_registrations[i]) # Pair(new_registrations[j])

\* the line is a consumption line with a valid quantity, a unit other than
\* cal/cals and, when it has five segments or more, a date that parses
ConsumptionLine(line) ==
    LET items == StripAll(Split(line, "-"))
    IN  /\ ~StartsWith(line, <<"@">>)
        /\ Len(items) >= 2
        /\ split_unit(items[2]).exc = "none"
        /\ ~IsCalUnit(split_unit(items[2]).un)
        /\ Len(items) >= 5 => strptime(items[3]).exc = "none"

\* description and unit of the consumption line equal the pair once normalized
LineMatches(line, pair) ==
    LET items == StripAll(Split(line, "-"))
    IN  /\ normalize_text(items[1]) = normalize_text(pair[1])
        /\ normalize_text(split_unit(items[2]).un) = normalize_text(pair[2])

FetchedMessage(id) ==
    CHOOSE m \in {fetched[i] : i \in 1..Len(fetched)} : m.id = id

\* C5 as stated: a consumption line of a message that also holds a
\* registration line for its (description, unit) is uploaded and never lands
\* in missing_registration, whichever of the two lines comes first.
C5_SameMessageResolves ==
    (tracker = "calories" /\ pc = "processed") =>
        \A i \in 1..Len(missing_registration) :
            LET e == missing_registration[i]
            IN  ~\E r \in {new_registrations[k] : k \in 1..Len(new_registrations)} :
                    /\ r.id = e.id
                    /\ ConsumptionLine(e.text)
                    /\ LineMatches(e.text, Pair(r))

\* C6 as stated: a consumption line that matches a pair registered in the
\* same batch by another message whose text starts with "@" is uploaded and
\* never lands in missing_registration, whichever message was fetched first.
C6_AcrossMessagesResolves ==
    (tracker = "calories" /\ pc = "processed") =>
        \A i \in 1..Len(missing_registration) :
            LET e == missing_registration[i]
            IN  ~\E r \in {new_registrations[k] : k \in 1..Len(new_registrations)} :
                    /\ r.id # e.id
                    /\ StartsWithAt(FetchedMessage(r.id))
                    /\ ConsumptionLine(e.text)
                    /\ LineMatches(e.text, Pair(r))

\* the step of ProcessLine on a consumption line, by the reference entries
\* that match the line once normalized
C7_Step ==
    (ProcessLine /\ ConsumptionLine(Head(lines))) =>
        LET line    == Head(lines)
            items   == StripAll(Split(line, "-"))
            matches == {k \in 1..Len(registrations) :
                            LineMatches(line, registrations[k])}
        IN  IF matches = {} THEN to_upload' = to_upload
            ELSE \E k \in matches :
                     /\ Len(to_upload') = Len(to_upload) + 1
                     /\ to_upload'[Len(to_upload')].id = cur.id
                     /\ to_upload'[Len(to_upload')].description =
                            registrations[k][1]
                     /\ to_upload'[Len(to_upload')].unit = registrations[k][2]
                     /\ to_upload'[Len(to_upload')].quantity =
                            split_unit(items[2]).val
                     /\ SubSeq(to_upload', 1, Len(to_upload)) = to_upload

\* C7: a consumption line matches a reference entry when description and
\* unit are equal after normalize_text, and the record then placed in
\* to_upload carries description and unit as the reference entry spells them.
C7_CanonicalSpelling == [][C7_Step]_vars

\* an uploaded record whose description no line of its message spells so
C7_Witness ==
    /\ tracker = "calories"
    /\ pc = "processed"
    /\ \E i \in 1..Len(to_upload) :
           /\ to_upload[i].quantity # NoneDec
           /\ LET ls == SplitLines(FetchedMessage(to_upload[i].id).text)
              IN  \A j \in 1..Len(ls) :
                      \/ Strip(Split(ls[j], "-")[1]) # to_upload[i].description
                      \/ StartsWith(ls[j], <<"@">>)

C8_Step ==
    (/\ ProcessLine
     /\ ConsumptionLine(Head(lines))
     /\ \A k \in 1..Len(registrations) :
            ~LineMatches(Head(lines), registrations[k])) =>
        /\ missing_registration' =
               Append(missing_registration,
                      [id |-> cur.id, date |-> cur.date, text |-> Head(lines)])
        /\ to_upload' = to_upload
        /\ new_registrations' = new_registrations
        /\ Len(failed_to_parse') = Len(failed_to_parse)
        /\ pc' # "aborted"

C9_AnsweredInBatch ==
    pc = "processed" =>
        \A i \in 1..Len(asked_for_help) :
            ~\E j \in 1..Len(fetched) :
                /\ fetched[j].id \notin processed_msgs
                /\ fetched[j].reply_to = asked_for_help[i].id

\* a help request answered in its batch by a reply that is itself skipped
C9_Witness ==
    /\ pc = "processed"
    /\ \E i \in 1..Len(help_wanted), j \in 1..Len(fetched) :
           /\ fetched[j].reply_to = help_wanted[i].id
           /\ fetched[j].id \notin processed_msgs
           /\ \/ fetched[j].text = NoneText
              \/ StartsWith(fetched[j].text, <<"#">>)

\* C10 as stated: a help request that has a reply threaded to it in the chat
\* is in asked_for_help in no later run, whatever the ledger holds.
C10_AnsweredAcrossRuns ==
    pc = "processed" =>
        \A i \in 1..Len(asked_for_help) :
            ~\E j \in 1..Len(fetched) :
                fetched[j].reply_to = asked_for_help[i].id

\* C11 as stated: after a pass of the calories tracker that left an entry in
\* to_upload, new_registrations, missing_registration or failed_to_parse,
\* send_feedback_messages has sent a report, and the report has a section for
\* each of these buckets that is not empty, with a bullet for every entry.
C11_EveryBucketReported ==
    (/\ tracker = "calories"
     /\ pc = "sent"
     /\ \/ to_upload # <<>>
        \/ new_registrations # <<>>
        \/ missing_registration # <<>>
        \/ failed_to_parse # <<>>) =>
        /\ reply.sent
        /\ Len(reply.ok) = Len(to_upload) + Len(new_registrations)
        /\ reply.miss = [i \in 1..Len(missing_registration) |->
                             missing_registration[i].text]
        /\ \A i \in 1..Len(failed_to_parse) :
               failed_to_parse[i].text \in reply.nok

\* the segments of a line, the "@" of a registration taken off
LineItems(line) == StripAll(Split(LStripAt(line), "-"))

\* the text of the line that is handed to split_unit, when the parser gets
\* that far: the second segment, or what follows its "/" in a registration
QuantityText(line) ==
    IF StartsWith(line, <<"@">>)
    THEN Strip(Split(LineItems(line)[2], "/")[2])
    ELSE LineItems(line)[2]

ReachesSplitUnit(line) ==
    /\ Len(LineItems(line)) >= 2
    /\ StartsWith(line, <<"@">>) =>
           /\ Len(Split(LineItems(line)[2], "/")) >= 2
           /\ Decimal(Strip(ReplaceCal(Split(LineItems(line)[2], "/")[1]))).exc
                  = "none"

HasDigit(t) == \E i \in 1..Len(t) : IsNumeric(t[i])

\* the line goes to failed_to_parse and the loop goes on
RecordedAsFailure ==
    /\ Len(failed_to_parse') = Len(failed_to_parse) + 1
    /\ failed_to_parse'[Len(failed_to_parse')].id = cur.id
    /\ to_upload' = to_upload
    /\ new_registrations' = new_registrations
    /\ missing_registration' = missing_registration
    /\ pc' # "aborted"

C12_Step ==
    (/\ ProcessLine
     /\ ReachesSplitUnit(Head(lines))
     /\ ~HasDigit(QuantityText(Head(lines)))) => RecordedAsFailure

\* C12 as stated: a consumption or registration line whose quantity text has
\* no digit at all is a format failure: the line is recorded in
\* failed_to_parse and the pass goes on with the remaining lines.
C12_NoDigitIsFormatFailure == [][C12_Step]_vars

\* the value segment of a quantity text: up to its last digit, trimmed
ValueSegment(t) ==
    Strip(SubSeq(t, 1, CHOOSE k \in 1..Len(t) :
                           /\ IsNumeric(t[k])
                           /\ \A j \in (k + 1)..Len(t) : ~IsNumeric(t[j])))

\* the value segment is p/q, p and q decimals, q zero
ZeroDenominator(t) ==
    /\ HasDigit(t)
    /\ Len(Split(ValueSegment(t), "/")) = 2
    /\ Decimal(Split(ValueSegment(t), "/")[1]).exc = "none"
    /\ Decimal(Split(ValueSegment(t), "/")[2]).exc = "none"
    /\ Decimal(Split(ValueSegment(t), "/")[2]).val.n = 0

C13_Step ==
    (/\ ProcessLine
     /\ ReachesSplitUnit(Head(lines))
     /\ ZeroDenominator(QuantityText(Head(lines)))) => RecordedAsFailure

\* C13 as stated: a quantity written as a fraction with a zero denominator
\* (p/0, p zero or not) is a format failure and not a crash: the line is
\* recorded in failed_to_parse and no exception leaves the pass.
C13_ZeroDenominatorIsFormatFailure == [][C13_Step]_vars

\* the unit segment of a quantity text: what follows its last digit, trimmed
UnitSegment(t) ==
    Strip(SubSeq(t, 1 + (CHOOSE k \in 1..Len(t) :
                             /\ IsNumeric(t[k])
                             /\ \A j \in (k + 1)..Len(t) : ~IsNumeric(t[j])),
                 Len(t)))

\* v is written as a decimal, or as a fraction p/q of decimals with q not zero
IsValue(v) ==
    IF Contains(v, "/")
    THEN /\ Len(Split(v, "/")) = 2
         /\ Decimal(Split(v, "/")[1]).exc = "none"
         /\ Decimal(Split(v, "/")[2]).exc = "none"
         /\ Decimal(Split(v, "/")[2]).val.n # 0
    ELSE Decimal(v).exc = "none"

ValueOf(v) ==
    IF Contains(v, "/")
    THEN DecimalDiv(Decimal(Split(v, "/")[1]).val,
                    Decimal(Split(v, "/")[2]).val).val
    ELSE Decimal(v).val

SameNumber(p, q) == p.n * q.d = q.n * p.d

\* split_unit gives this value and this unit for the text t
SplitGives(t, value, unit) ==
    /\ split_unit(t).exc = "none"
    /\ SameNumber(split_unit(t).val, value)
    /\ split_unit(t).un = unit

\* u is a unit: it starts with a letter, the blanks before it apart
IsUnit(u) ==
    Strip(u) = <<>> \/ Strip(u)[1] \notin {"0", "1", "2", "3", "4", "5", "6",
                                           "7", "8", "9", "/", "."}

\* the ways to read t as a value, ending with a digit, followed by a unit
ValueThenUnit(t) ==
    {k \in 1..Len(t) : /\ IsNumeric(t[k])
                       /\ IsValue(Strip(SubSeq(t, 1, k)))
                       /\ IsUnit(SubSeq(t, k + 1, Len(t)))}

\* the split is taken after the last digit of the text
SplitsAfterLastDigit(t) ==
    IF IsValue(ValueSegment(t))
    THEN SplitGives(t, ValueOf(ValueSegment(t)), UnitSegment(t))
    ELSE split_unit(t).exc # "none"

\* a line is about to be parsed and its quantity text holds a digit
QuantityAtHand ==
    /\ tracker = "calories"
    /\ pc = "lines"
    /\ ReachesSplitUnit(Head(lines))
    /\ HasDigit(QuantityText(Head(lines)))

\* C14 as stated: split_unit splits a text that holds a digit immediately
\* after its last digit (value: the trimmed prefix, a decimal or the
\* quotient of a fraction; unit: the trimmed rest), so that every text built
\* as a value followed by a unit gives back that value and that unit.
C14_RoundTrip ==
    QuantityAtHand =>
        /\ SplitsAfterLastDigit(QuantityText(Head(lines)))
        /\ \A k \in ValueThenUnit(QuantityText(Head(lines))) :
               SplitGives(QuantityText(Head(lines)),
                   ValueOf(Strip(SubSeq(QuantityText(Head(lines)), 1, k))),
                   Strip(SubSeq(QuantityText(Head(lines)), k + 1,
                                Len(QuantityText(Head(lines))))))

\* C14: split_unit splits a text that holds a digit immediately after its
\* last digit: the value is the trimmed prefix, read as a decimal or as the
\* quotient of a fraction p/q, the unit is the trimmed rest; a text built as
\* a value followed by a unit that holds no digit gives back that value and
\* that unit.
C14_SplitsAfterLastDigit ==
    QuantityAtHand =>
        /\ SplitsAfterLastDigit(QuantityText(Head(lines)))
        /\ \A k \in ValueThenUnit(QuantityText(Head(lines))) :
               ~HasDigit(SubSeq(QuantityText(Head(lines)), k + 1,
                                Len(QuantityText(Head(lines))))) =>
               SplitGives(QuantityText(Head(lines)),
                   ValueOf(Strip(SubSeq(QuantityText(Head(lines)), 1, k))),
                   Strip(SubSeq(QuantityText(Head(lines)), k + 1,
                                Len(QuantityText(Head(lines))))))

\* the line "a-1/2 un" was parsed (no reference has the unit "un"), and
\* split_unit gives 0.5 and "un" for its quantity text
C14_Witness ==
    /\ \E i \in 1..Len(missing_registration) :
           missing_registration[i].text =
               <<"a", "-", "1", "/", "2", " ", "u", "n">>
    /\ SplitGives(<<"1", "/", "2", " ", "u", "n">>, [n |-> 5, d |-> 10],
                  <<"u", "n">>)

\* the rows of the sheet of entries as the run read them last, and the
\* number each shows in column "Calorias"
RowsRead == ReadEntries(entries_df, registrations_df)

RECURSIVE SumOfRows(_)
SumOfRows(I) ==
    IF I = {} THEN [n |-> 0, d |-> 1]
    ELSE LET i == CHOOSE k \in I : TRUE
         IN  AddDec(RowsRead[i].Calorias.val, SumOfRows(I \ {i}))

\* the rows dated ref_date
RowsOfToday == {i \in 1..Len(RowsRead) : RowsRead[i].Dia = Today}

\* the rows dated in the month of ref_date, before the day of ref_date
RowsOfMonth ==
    {i \in 1..Len(RowsRead) : /\ RowsRead[i].Dia[1] = Today[1]
                              /\ RowsRead[i].Dia[2] = Today[2]
                              /\ RowsRead[i].Dia[3] < Today[3]}

DaysOfMonth == {RowsRead[i].Dia : i \in RowsOfMonth}

\* C15: the monthly aggregation leaves the current day out.  In the reply of
\* the calories tracker that carries the summary, today_calories is the sum
\* of the rows dated ref_date, monthly_calories the sum of the rows dated from
\* the first day of ref_date's month up to but not including ref_date, and
\* monthly_mean that sum divided by the number of these days; the rows of
\* ref_date, of later days and of earlier months count for nothing in them.
C15_MonthlyExcludesToday ==
    (tracker = "calories" /\ pc = "sent" /\ reply.summary) =>
        /\ SameNumber(reply.cals.today_calories, SumOfRows(RowsOfToday))
        /\ SameNumber(reply.cals.monthly_calories, SumOfRows(RowsOfMonth))
        /\ DaysOfMonth # {} =>
               SameNumber(reply.cals.monthly_mean,
                          MulDec(SumOfRows(RowsOfMonth),
                                 [n |-> 1, d |-> Cardinality(DaysOfMonth)]))

\* the sheet holds rows of the month before, of two earlier days of this
\* month (two rows on one of them), of today and of tomorrow, and the run
\* added a row of its own: the summary gives 29 for the month, 29/2 a day
C15_Witness ==
    /\ tracker = "calories"
    /\ pc = "sent"
    /\ reply.summary
    /\ Len(entries_df) = Len(FullHistory) + 1
    /\ \E i \in 1..Len(entries_df) : DateBefore(Today, entries_df[i].Dia)
    /\ \E i \in 1..Len(entries_df) :
           DateBefore(entries_df[i].Dia, <<Today[1], Today[2], 1>>)
    /\ SameNumber(reply.cals.monthly_calories, [n |-> 29, d |-> 1])
    /\ SameNumber(reply.cals.monthly_mean, [n |-> 29, d |-> 2])
    /\ SameNumber(reply.cals.today_calories, [n |-> 22, d |-> 1])

C16_Step ==
    (/\ SendFeedbackMessages
     /\ to_upload = <<>>
     /\ new_registrations = <<>>) =>
        /\ ~reply'.summary
        /\ UNCHANGED dfVars
        /\ store_log' \in {store_log, store_log \o EntriesRead}

\* C16: the reply of either tracker carries the closing monthly summary only
\* if to_upload or new_registrations is non-empty; a run with only failures,
\* missing references or help requests sends no summary and does not compute
\* the monthly figures (no fetch_gsheet_state, no new snapshot).
C16_SummaryOnlyAfterSuccess == [][C16_Step]_vars

\* a report was sent for failures only, and it has no summary
C16_Witness ==
    /\ pc = "sent"
    /\ reply.sent
    /\ ~reply.summary
    /\ to_upload = <<>>
    /\ new_registrations = <<>>
    /\ failed_to_parse # <<>>

ExpenseItems(text) == StripAll(Split(text, "-"))

\* the valid accounts equal to the account segment once normalized
AccountMatches(text) ==
    {a \in Accounts : normalize_text(a) = normalize_text(ExpenseItems(text)[4])}

\* the step parses an expense message with a price and four segments or more
ExpenseAtHand ==
    /\ ProcessMessage
    /\ tracker = "expenses"
    /\ ExpenseParses(Head(msgs))
    /\ Len(ExpenseItems(Head(msgs).text)) >= 4
    /\ Decimal(ReplaceComma(ExpenseItems(Head(msgs).text)[1])).exc = "none"

C18_Step ==
    (/\ ExpenseAtHand
     /\ Len(ExpenseItems(Head(msgs).text)) >= 5 =>
            strptime(ExpenseItems(Head(msgs).text)[5]).exc = "none") =>
        /\ to_upload' # to_upload =>
               /\ Cardinality(AccountMatches(Head(msgs).text)) = 1
               /\ to_upload'[Len(to_upload')].account \in
                      AccountMatches(Head(msgs).text)
        /\ AccountMatches(Head(msgs).text) = {} =>
               /\ to_upload' = to_upload
               /\ failed_to_parse' = failed_to_parse
               /\ Len(missing_registration') = Len(missing_registration) + 1
               /\ pc' # "aborted"

\* C18 as stated: an expense line is uploaded only when its account segment,
\* normalized, equals exactly one valid account, and the record carries that
\* account's name; a line whose account matches no valid account is
\* classified as a missing reference, not as a format failure.
C18_AccountResolution == [][C18_Step]_vars

\* the date written in the fields after the account: DD/MM/YYYY in the
\* fifth field, or YYYY-MM-DD, which the split at "-" cuts in three
DateWritten(items) ==
    IF Len(items) = 5 /\ strptime(items[5]).exc = "none"
    THEN strptime(items[5]).val
    ELSE IF /\ Len(items) = 7
            /\ AllDigits(items[5]) /\ AllDigits(items[6]) /\ AllDigits(items[7])
    THEN <<DigitsVal(items[5]), DigitsVal(items[6]), DigitsVal(items[7])>>
    ELSE NoneDate

C19_Step ==
    (/\ ExpenseAtHand
     /\ AccountMatches(Head(msgs).text) # {}
     /\ Len(ExpenseItems(Head(msgs).text)) >= 5 =>
            DateWritten(ExpenseItems(Head(msgs).text)) # NoneDate) =>
        /\ pc' # "aborted"
        /\ Len(to_upload') = Len(to_upload) + 1
        /\ to_upload'[Len(to_upload')].date =
               (IF Len(ExpenseItems(Head(msgs).text)) = 4
                THEN Head(msgs).date
                ELSE DateWritten(ExpenseItems(Head(msgs).text)))

\* C19 as stated: an expense message PRECO - CONTRAPARTE - DESCRICAO - CONTA
\* - DATA with a valid account, the date written as in the help text's own
\* example (2023-12-28), is accepted: it lands in to_upload with that date;
\* a message without the date field gets the date of the message.
C19_HelpExampleAccepted == [][C19_Step]_vars

C20_Step ==
    (/\ ProcessLine
     /\ Strip(Head(lines)) = <<"?">>) =>
        /\ pc' # "aborted"
        /\ to_upload' = to_upload
        /\ new_registrations' = new_registrations
        /\ missing_registration' = missing_registration
        /\ Len(failed_to_parse') = Len(failed_to_parse)
        /\ cur.id \in Ids(help_wanted')

\* C20 as stated: in the calories tracker every line whose trimmed content is
\* "?" is classified as a help request for its message and is handed to no
\* record parser, also when it is one of several lines of a message.
C20_HelpRequestPerLine == [][C20_Step]_vars

\* the text is None or starts with the comment marker
SkippedText(m) == m.text = NoneText \/ StartsWith(m.text, <<"#">>)

\* the messages of the fetched batch the ledger read by this run does not hold
Unprocessed == FilterProcessed(fetched, processed_msgs)

\* the loop of process_received_messages ran to its end: the batch is not
\* empty and, in the calories tracker, does not begin with an automated text
PassRan ==
    /\ pc \in {"processed", "entries_up", "regs_up", "uploaded"}
    /\ Unprocessed # <<>>
    /\ tracker = "calories" => ~StartsWith(Unprocessed[1].text, TEXT_HEADER)

\* C21 as stated: in both trackers an unprocessed message with no text, or
\* with a text starting with "#", is skipped wherever it stands in the fetched
\* batch, first included: the pass does not die of it, no bucket and no row
\* of the ledger carries its id, and every other message of the batch is
\* classified.
C21_SkippedMessagesIgnored ==
    /\ ~(pc = "aborted" /\ exc = "AttributeError")
    /\ PassRan =>
           \A i \in 1..Len(Unprocessed) :
               IF SkippedText(Unprocessed[i])
               THEN /\ Unprocessed[i].id \notin BucketIds
                    /\ pc = "uploaded" =>
                           Unprocessed[i].id \notin fetch_processed_messages
               ELSE Unprocessed[i].id \in BucketIds \cup Ids(help_wanted)

\* the batch left after the processed ids are removed is empty, or its first
\* message begins with the header of the automated messages
OwnMessageFirst ==
    /\ tracker = "calories"
    /\ pc \in {"processed", "entries_up", "regs_up", "uploaded"}
    /\ \/ Unprocessed = <<>>
       \/ StartsWith(Unprocessed[1].text, TEXT_HEADER)

C22_Step ==
    OwnMessageFirst =>
        /\ BucketIds = {}
        /\ help_wanted = <<>>
        /\ sheet_telegram' = sheet_telegram
        /\ sheet_entries' = sheet_entries
        /\ sheet_registrations' = sheet_registrations
        /\ pc = "uploaded" => (chat' = chat /\ reply' = reply /\ pc' = "sent")

\* C22: in the calories tracker, when the batch left after removing the
\* processed ids is empty or its first message in fetch order begins with the
\* automated-message header, the pass stops at once: every bucket stays
\* empty, the run adds no row to the ledger or to the other sheets and sends
\* no reply, also when older unprocessed user messages are in the batch.
C22_OwnMessageGuard == [][C22_Step]_vars

\* a run stopped by the tracker's own reply standing first, with an older
\* user message of the batch still unprocessed behind it
C22_Witness ==
    /\ tracker = "calories"
    /\ pc = "sent"
    /\ Len(Unprocessed) >= 2
    /\ StartsWith(Unprocessed[1].text, TEXT_HEADER)
    /\ \E i \in 2..Len(Unprocessed) :
           /\ ~SkippedText(Unprocessed[i])
           /\ Unprocessed[i].id \notin BucketIds

\* the first segment of a line, as the parsers read it, normalized
FirstSegment(line) == normalize_text(Split(LStripAt(line), "-")[1])

\* the first line of the message `id` whose first segment is `key`
LineIndex(id, key) ==
    LET ls == SplitLines(FetchedMessage(id).text)
    IN  CHOOSE k \in 1..Len(ls) :
            /\ FirstSegment(ls[k]) = key
            /\ \A j \in 1..(k - 1) : FirstSegment(ls[j]) # key

\* message ids grow with time: an older message has the smaller id
OrderedByDescription(bucket) ==
    \A i, j \in 1..Len(bucket) :
        i < j =>
            \/ bucket[i].id < bucket[j].id
            \/ /\ bucket[i].id = bucket[j].id
               /\ LineIndex(bucket[i].id, normalize_text(bucket[i].description))
                      <= LineIndex(bucket[j].id,
                                   normalize_text(bucket[j].description))

OrderedByText(bucket) ==
    \A i, j \in 1..Len(bucket) :
        i < j =>
            \/ bucket[i].id < bucket[j].id
            \/ /\ bucket[i].id = bucket[j].id
               /\ LineIndex(bucket[i].id, FirstSegment(bucket[i].text))
                      <= LineIndex(bucket[j].id, FirstSegment(bucket[j].text))

\* C23 as stated: after process_received_messages over a batch fetched
\* newest first, every bucket lists its entries oldest first: an entry of an
\* older message stands before any entry of a newer message, and the entries
\* of one message stand in the order of its lines.
C23_OldestFirst ==
    PassRan =>
        /\ OrderedByDescription(to_upload)
        /\ OrderedByDescription(new_registrations)
        /\ OrderedByText(missing_registration)
        /\ OrderedByText(failed_to_parse)
        /\ OrderedByText(asked_for_help)

\* a line of the calories chat with too few segments, with an amount that is
\* no number, or with a date that does not parse
MalformedLine(line) ==
    \/ Len(LineItems(line)) < 2
    \/ /\ Len(LineItems(line)) >= 2
       /\ IF StartsWith(line, <<"@">>)
          THEN Decimal(Strip(ReplaceCal(Split(LineItems(line)[2], "/")[1]))).exc
                   # "none"
          ELSE \/ ~HasDigit(LineItems(line)[2])
               \/ /\ Len(LineItems(line)) >= 5
                  /\ strptime(LineItems(line)[3]).exc # "none"

\* the same for a message of the expenses chat
MalformedExpense(text) ==
    \/ Len(ExpenseItems(text)) < 4
    \/ Decimal(ReplaceComma(ExpenseItems(text)[1])).exc # "none"
    \/ /\ Len(ExpenseItems(text)) >= 5
       /\ strptime(ExpenseItems(text)[5]).exc # "none"

C24_Step ==
    /\ (ProcessLine /\ MalformedLine(Head(lines))) => RecordedAsFailure
    /\ (/\ ProcessMessage
        /\ tracker = "expenses"
        /\ ExpenseParses(Head(msgs))
        /\ MalformedExpense(Head(msgs).text)) =>
           /\ failed_to_parse' = Append(failed_to_parse, Head(msgs))
           /\ to_upload' = to_upload
           /\ pc' # "aborted"

\* C24 as stated: every kind of malformed line (too few segments, a price or
\* calorie amount that is no number, a date that does not parse) is a format
\* failure: the line gives exactly one entry in failed_to_parse and none in
\* to_upload, new_registrations or missing_registration.
C24_MalformedIsFormatFailure == [][C24_Step]_vars

\* a consumption line with a valid quantity is parsed; its fourth segment,
\* when it has one, is a date
DatedLineAtHand ==
    /\ ProcessLine
    /\ ~StartsWith(Head(lines), <<"@">>)
    /\ Len(LineItems(Head(lines))) >= 2
    /\ split_unit(LineItems(Head(lines))[2]).exc = "none"
    /\ Len(LineItems(Head(lines))) >= 4 =>
           strptime(LineItems(Head(lines))[4]).exc = "none"

C25_Step ==
    DatedLineAtHand =>
        /\ pc' # "aborted"
        /\ to_upload' # to_upload =>
               to_upload'[Len(to_upload')].date =
                   (IF Len(LineItems(Head(lines))) >= 4
                    THEN strptime(LineItems(Head(lines))[4]).val
                    ELSE cur.date)

\* C25 as stated: the effective date of a consumption record is the fourth
\* "-"-delimited segment of its line, read as a date, when the line has one,
\* and the date of the message when it has none.
C25_EffectiveDate == [][C25_Step]_vars

\* quantity and unit set, calories None
QuantityForm(m) ==
    m.quantity # NoneDec /\ m.unit # NoneText /\ m.calories = NoneDec

\* calories set, quantity and unit None
CaloriesForm(m) ==
    m.calories # NoneDec /\ m.quantity = NoneDec /\ m.unit = NoneText

\* C26: at every point of every pass of the calories tracker, each record of
\* to_upload has exactly one of two forms: quantity and unit both set and
\* calories None (an entry matched to a reference), or calories set and
\* quantity and unit both None (a line whose unit is cal/cals).
C26_RecordForms ==
    tracker = "calories" =>
        \A i \in 1..Len(to_upload) :
            /\ QuantityForm(to_upload[i]) \/ CaloriesForm(to_upload[i])
            /\ ~(QuantityForm(to_upload[i]) /\ CaloriesForm(to_upload[i]))

\* a pass that built a record of each form
C26_Witness ==
    /\ tracker = "calories"
    /\ pc = "processed"
    /\ \E i, j \in 1..Len(to_upload) :
           QuantityForm(to_upload[i]) /\ CaloriesForm(to_upload[j])

\* the parsers raise an exception of the format-failure clause on this line
FailsToParse(line) ==
    ExceptClause(LineParse(Message(0, MsgDate, line, 0), <<>>).exc)
        = "failed_to_parse"

\* the lines of the message `id` that fail to parse
FailingLines(id) ==
    {l \in {SplitLines(FetchedMessage(id).text)[k] :
                k \in 1..Len(SplitLines(FetchedMessage(id).text))} :
         FailsToParse(l)}

\* C27 as stated: each line of a message that fails to parse stands in
\* failed_to_parse, and in the format-error section of the reply, with its
\* own text; no failing line is reported under the text of another line of
\* its message.
C27_FailedUnderOwnText ==
    (/\ tracker = "calories"
     /\ pc \in {"processed", "entries_up", "regs_up", "uploaded", "sent"}) =>
        /\ \A i \in 1..Len(failed_to_parse) :
               /\ failed_to_parse[i].text \in FailingLines(failed_to_parse[i].id)
               /\ \A l \in FailingLines(failed_to_parse[i].id) :
                      \E j \in 1..Len(failed_to_parse) :
                          /\ failed_to_parse[j].id = failed_to_parse[i].id
                          /\ failed_to_parse[j].text = l
        /\ reply.sent => \A t \in reply.nok : FailsToParse(t)

\* the ledger holds the message with status ASKED_FOR_HELP
LedgerAskedForHelp(id) ==
    \E k \in 1..Len(sheet_telegram) :
        /\ sheet_telegram[k].MsgId = id
        /\ sheet_telegram[k].Status = "ASKED_FOR_HELP"

C28_Step ==
    SendFeedbackMessages =>
        \A i \in 1..Len(asked_for_help) :
            LedgerAskedForHelp(asked_for_help[i].id) =>
                \E k \in (Len(chat) + 1)..Len(chat') :
                    /\ chat'[k].text = HelpText
                    /\ chat'[k].reply_to = asked_for_help[i].id

\* C28 as stated: every message a run records in the ledger with status
\* ASKED_FOR_HELP is sent, in that run, a help reply threaded to its id,
\* however many unanswered help requests the batch holds.
C28_EveryHelpRequestAnswered == [][C28_Step]_vars

\* C29 as stated: when a line lands in missing_registration in a run, the
\* id of its message is not in the processed ledger after the run, so that a
\* later pass classifies the line again.
C29_MissingStaysUnprocessed ==
    (tracker = "calories" /\ pc = "uploaded") =>
        \A i \in 1..Len(missing_registration) :
            missing_registration[i].id \notin fetch_processed_messages

\* the message ids of the rows of the sheet of entries
EntryIds == {sheet_entries[k].MsgId : k \in 1..Len(sheet_entries)}

\* C30: when a tracker object makes run after run, the five buckets are
\* empty when process_received_messages starts, so no entry classified by an
\* earlier run is uploaded or reported again: what a pass puts in to_upload
\* has no row in the sheet of entries yet.
C30_NoCrossRunRetention ==
    /\ pc \in {"idle", "fetched"} =>
           /\ to_upload = <<>>
           /\ new_registrations = <<>>
           /\ missing_registration = <<>>
           /\ failed_to_parse = <<>>
           /\ asked_for_help = <<>>
    /\ pc = "processed" => Ids(to_upload) \cap EntryIds = {}

\* a second run of the object is about to classify a new message, after a
\* first run that uploaded an entry and reported it
C30_Witness ==
    /\ pc = "fetched"
    /\ exc = "none"
    /\ sheet_entries # <<>>
    /\ sheet_telegram # <<>>
    /\ \E k \in 1..Len(chat) : StartsWith(chat[k].text, TEXT_HEADER)
    /\ chat[Len(chat)].id \notin fetch_processed_messages
    /\ ~SkippedText(chat[Len(chat)])

\* the message ids of the rows of the sheet of reference
RegistrationIds ==
    {sheet_registrations[k].MsgId : k \in 1..Len(sheet_registrations)}

\* the place of a sheet in the order of the writes of update_gsheet_state
WriteRank(sheet) ==
    CASE sheet \in {"Acompanhamento", "Entradas"} -> 1
      [] sheet = "Referencia" -> 2
      [] sheet = "Telegram" -> 3

\* C31: within a run the rows of entries are appended first, then the rows
\* of reference, then the rows of the ledger, and the reply is sent last;
\* hence at every point of a run, also when the run dies between two writes,
\* every message id the ledger records with SUCCESS has its entry or
\* registration rows in the sheets.
C31_WriteOrdering ==
    /\ \A k \in 1..Len(sheet_telegram) :
           sheet_telegram[k].Status = "SUCCESS" =>
               sheet_telegram[k].MsgId \in EntryIds \cup RegistrationIds
    /\ \A i, j \in 1..Len(store_log) :
           (i < j /\ store_log[i].op = "write" /\ store_log[j].op = "write") =>
               WriteRank(store_log[i].sheet) < WriteRank(store_log[j].sheet)
    /\ reply.sent =>
           \E i \in 1..Len(store_log) :
               store_log[i] = [op |-> "write", sheet |-> "Telegram"]

\* a run died between the write of its entries and the write of the ledger
C31_Witness ==
    /\ pc = "aborted"
    /\ exc = "HttpError"
    /\ to_upload # <<>>
    /\ to_upload[1].id \in EntryIds
    /\ to_upload[1].id \notin fetch_processed_messages

\* the rows the step appended to the sheet of entries
AppendedRows == SubSeq(sheet_entries', Len(sheet_entries) + 1, Len(sheet_entries'))

\* rows 2i-1 and 2i are the two rows of the record m
DoubleEntry(rows, i, m) ==
    /\ rows[2 * i - 1].Conta = <<"D", "e", "s", "p", "e", "s", "a">>
    /\ rows[2 * i - 1].Valor = m.price
    /\ rows[2 * i].Conta = m.account
    /\ rows[2 * i].Valor.d = m.price.d
    /\ rows[2 * i].Valor.n + m.price.n = 0
    /\ \A k \in {2 * i - 1, 2 * i} :
           /\ rows[k].Data = m.date
           /\ rows[k].Contraparte = m.counterparty
           /\ rows[k].Descricao = m.description
           /\ rows[k].MsgId = m.id
    /\ SumDec(<<rows[2 * i - 1].Valor, rows[2 * i].Valor>>).n = 0

C32_Step ==
    (UploadEntries /\ tracker = "expenses") =>
        /\ SubSeq(sheet_entries', 1, Len(sheet_entries)) = sheet_entries
        /\ Len(AppendedRows) = 2 * Len(to_upload)
        /\ \A i \in 1..Len(to_upload) :
               DoubleEntry(AppendedRows, i, to_upload[i])
        /\ SumDec([k \in 1..Len(AppendedRows) |-> AppendedRows[k].Valor]).n = 0

\* C32: for every record of to_upload the expenses tracker's upload_entries
\* appends exactly two rows with the record's date, counterparty, description
\* and message id, one for account "Despesa" with the price and one for the
\* record's account with the price negated, so that the values appended for
\* one expense, and for the whole batch, sum to zero.
C32_DoubleEntry == [][C32_Step]_vars

\* a batch of two expenses was uploaded as four rows
C32_Witness ==
    /\ tracker = "expenses"
    /\ pc = "regs_up"
    /\ Len(to_upload) = 2
    /\ Len(sheet_entries) >= 4
    /\ sheet_entries[Len(sheet_entries)].Valor.n < 0

====
